---- MODULE Spec2Model ----
(***************************************************************************)
(* Model of the workspace file-reference engine of the AI Code Assistant   *)
(* extension: ChatPanelProvider (chatPanelProvider.ts) and FileManager      *)
(* (fileManager.ts).  Strings are sequences of one-character strings, so    *)
(* that toLowerCase, includes, path.join, path.basename and the glob        *)
(* patterns are computed, not assumed.  Paths are POSIX paths.              *)
(***************************************************************************)
EXTENDS Integers, Sequences, FiniteSets, TLC

(***************************************************************************)
(* Bounds of the model.                                                     *)
(***************************************************************************)
MaxRoots == 2
MaxFiles == 3
MaxAttached == 1

(***************************************************************************)
(* String primitives (JavaScript String methods).                           *)
(***************************************************************************)
UpperLetters == <<"A","B","C","D","E","F","G","H","I","J","K","L","M",
                  "N","O","P","Q","R","S","T","U","V","W","X","Y","Z">>
LowerLetters == <<"a","b","c","d","e","f","g","h","i","j","k","l","m",
                  "n","o","p","q","r","s","t","u","v","w","x","y","z">>
Digits == {"0","1","2","3","4","5","6","7","8","9"}

IndexIn(c, letters) ==
    IF \E i \in 1..Len(letters) : letters[i] = c
    THEN CHOOSE i \in 1..Len(letters) : letters[i] = c
    ELSE 0

LowerChar(c) == IF IndexIn(c, UpperLetters) > 0
                THEN LowerLetters[IndexIn(c, UpperLetters)] ELSE c
UpperChar(c) == IF IndexIn(c, LowerLetters) > 0
                THEN UpperLetters[IndexIn(c, LowerLetters)] ELSE c

ToLowerCase(s) == [i \in 1..Len(s) |-> LowerChar(s[i])]
ToUpperCase(s) == [i \in 1..Len(s) |-> UpperChar(s[i])]

\* s.substring(n): the characters of s from 0-based index n on
Substring(s, n) == SubSeq(s, n + 1, Len(s))

\* s.includes(sub)
Includes(s, sub) ==
    \E i \in 0..(Len(s) - Len(sub)) : SubSeq(s, i + 1, i + Len(sub)) = sub

\* s.startsWith(pre)
StartsWith(s, pre) == Len(pre) <= Len(s) /\ SubSeq(s, 1, Len(pre)) = pre

\* s.lastIndexOf(c), 1-based, 0 when absent
LastIndexOf(s, c) ==
    IF \E i \in 1..Len(s) : s[i] = c
    THEN CHOOSE i \in 1..Len(s) : s[i] = c /\ \A j \in (i+1)..Len(s) : s[j] # c
    ELSE 0

\* s.replace(/\\/g, '/')
ReplaceBackslashes(s) == [i \in 1..Len(s) |-> IF s[i] = "\\" THEN "/" ELSE s[i]]

\* lexicographic order of strings by character code (the characters used
\* in paths here: '.' < '/' < digits < upper case < '_' < lower case)
CharCode(c) ==
    IF c = "." THEN 46
    ELSE IF c = "/" THEN 47
    ELSE IF c \in Digits THEN 48
    ELSE IF IndexIn(c, UpperLetters) > 0 THEN 64 + IndexIn(c, UpperLetters)
    ELSE IF c = "_" THEN 95
    ELSE IF IndexIn(c, LowerLetters) > 0 THEN 96 + IndexIn(c, LowerLetters)
    ELSE 32

RECURSIVE LexLess(_, _)
LexLess(s, t) ==
    IF t = <<>> THEN FALSE
    ELSE IF s = <<>> THEN TRUE
    ELSE IF CharCode(s[1]) # CharCode(t[1]) THEN CharCode(s[1]) < CharCode(t[1])
    ELSE LexLess(Tail(s), Tail(t))

\* s.split('/')
RECURSIVE Split(_)
Split(s) ==
    IF \A i \in 1..Len(s) : s[i] # "/" THEN <<s>>
    ELSE LET k == CHOOSE i \in 1..Len(s) : s[i] = "/" /\ \A j \in 1..(i-1) : s[j] # "/"
         IN <<SubSeq(s, 1, k - 1)>> \o Split(SubSeq(s, k + 1, Len(s)))

\* segs.join('/')
RECURSIVE JoinSegs(_)
JoinSegs(segs) ==
    IF segs = <<>> THEN <<>>
    ELSE IF Len(segs) = 1 THEN segs[1]
    ELSE segs[1] \o <<"/">> \o JoinSegs(Tail(segs))

(***************************************************************************)
(* Node's path module (posix).                                              *)
(***************************************************************************)
IsAbsolute(p) == Len(p) > 0 /\ p[1] = "/"

\* the segments of p with '.', '' dropped and 'x/..' collapsed
RECURSIVE NormSegs(_, _, _)
NormSegs(segs, acc, abs) ==
    IF segs = <<>> THEN acc
    ELSE LET s == segs[1] IN
         IF s = <<>> \/ s = <<".">> THEN NormSegs(Tail(segs), acc, abs)
         ELSE IF s = <<".", ".">> THEN
              IF acc # <<>> /\ acc[Len(acc)] # <<".", ".">>
              THEN NormSegs(Tail(segs), SubSeq(acc, 1, Len(acc) - 1), abs)
              ELSE IF abs THEN NormSegs(Tail(segs), acc, abs)
              ELSE NormSegs(Tail(segs), Append(acc, s), abs)
         ELSE NormSegs(Tail(segs), Append(acc, s), abs)

\* path.normalize(p)
Normalize(p) ==
    IF p = <<>> THEN <<".">>
    ELSE LET abs == IsAbsolute(p)
             trail == p[Len(p)] = "/"
             body == JoinSegs(NormSegs(Split(p), <<>>, abs))
         IN IF body = <<>>
            THEN (IF abs THEN <<"/">> ELSE IF trail THEN <<".", "/">> ELSE <<".">>)
            ELSE (IF abs THEN <<"/">> ELSE <<>>) \o body
                 \o (IF trail THEN <<"/">> ELSE <<>>)

\* path.join(a, b)
PathJoin(a, b) ==
    IF a = <<>> /\ b = <<>> THEN <<".">>
    ELSE IF a = <<>> THEN Normalize(b)
    ELSE IF b = <<>> THEN Normalize(a)
    ELSE Normalize(a \o <<"/">> \o b)

\* p without its trailing slashes
RECURSIVE StripTrailingSlashes(_)
StripTrailingSlashes(p) ==
    IF Len(p) > 1 /\ p[Len(p)] = "/"
    THEN StripTrailingSlashes(SubSeq(p, 1, Len(p) - 1))
    ELSE p

\* path.basename(p)
Basename(p) ==
    LET q == StripTrailingSlashes(p) IN
    IF q = <<"/">> THEN <<>>
    ELSE SubSeq(q, LastIndexOf(q, "/") + 1, Len(q))

\* path.dirname(p): the trailing slashes are skipped, then what stands before
\* the last separator is kept as it is
Dirname(p) ==
    LET q == StripTrailingSlashes(p)
        k == LastIndexOf(q, "/")
    IN IF k <= 1 THEN (IF IsAbsolute(p) THEN <<"/">> ELSE <<".">>)
       ELSE IF IsAbsolute(p) /\ k = 2 THEN <<"/", "/">>
       ELSE SubSeq(q, 1, k - 1)

\* path.extname(p)
Extname(p) ==
    LET b == Basename(p)
        k == LastIndexOf(b, ".")
    IN IF k <= 1 \/ b = <<".", ".">> THEN <<>>
       ELSE SubSeq(b, k, Len(b))

(***************************************************************************)
(* The strings the model is run on.                                         *)
(***************************************************************************)
RootU == <<"/","u">>
RootV == <<"/","v">>
RootDirs == {RootU, RootV}

FileUA == <<"/","u","/","a",".","t","s">>
FileUDA == <<"/","u","/","d","/","a",".","t","s">>
FileVA == <<"/","v","/","a",".","t","s">>
FileVC == <<"/","v","/","c",".","t","s">>
FileOS == <<"/","o","/","s",".","t","s">>
FileUPng == <<"/","u","/","p",".","p","n","g">>
FileUNm == <<"/","u","/","n","o","d","e","_","m","o","d","u","l","e","s","/","a",".","t","s">>
Universe == {FileUA, FileUDA, FileVA, FileVC, FileOS, FileUPng, FileUNm}

NodeModules == <<"n","o","d","e","_","m","o","d","u","l","e","s">>

(***************************************************************************)
(* The workspace: the open folders, in their order, and the files on disk.  *)
(* The handlers only read them; createFile adds files.                      *)
(***************************************************************************)
VARIABLES
    workspaceFolders,  \* the open folders, in their order
    foldersDefined,    \* is vscode.workspace.workspaceFolders an array, or undefined
    disk,              \* the files on disk
    madeDirs           \* the directories createFile has made

\* sequences of n distinct elements of S
Orderings(S, n) ==
    {s \in [1..n -> S] : \A i, j \in 1..n : i # j => s[i] # s[j]}

Min(a, b) == IF a < b THEN a ELSE b

WorkspaceChoices == UNION {Orderings(RootDirs, n) : n \in 0..Min(MaxRoots, Cardinality(RootDirs))}
DiskChoices == {d \in SUBSET Universe : Cardinality(d) <= MaxFiles}

\* vscode.workspace.workspaceFolders is undefined when no workspace has been
\* opened; a workspace without folders gives the empty array
FoldersDefinedChoices == {b \in BOOLEAN : workspaceFolders # <<>> => b}

\* !workspaceFolders: true of undefined, false of every array
NoWorkspaceFolders == ~foldersDefined

\* no root is open: workspaceFolders is undefined or empty
NoRootOpen == workspaceFolders = <<>>

\* is path p inside folder r
Inside(r, p) == StartsWith(p, r \o <<"/">>) /\ Len(p) > Len(r) + 1

\* vscode.workspace.getWorkspaceFolder: index of the open folder holding p, 0 if none
FolderIndexOf(p) ==
    IF \E i \in 1..Len(workspaceFolders) : Inside(workspaceFolders[i], p)
    THEN CHOOSE i \in 1..Len(workspaceFolders) :
            /\ Inside(workspaceFolders[i], p)
            /\ \A j \in 1..(i-1) : ~Inside(workspaceFolders[j], p)
    ELSE 0

\* the path of p relative to folder r
RelativeTo(r, p) == Substring(p, Len(r) + 1)

\* vscode.workspace.asRelativePath(pathOrUri): a string argument is read as
\* URI.file(path); a path outside every open folder is returned as given; with
\* several folders open the folder's name is prepended
AsRelativePath(p) ==
    LET abs == IF IsAbsolute(p) THEN p ELSE <<"/">> \o p
        k == FolderIndexOf(abs)
    IN IF k = 0 THEN p
       ELSE LET r == workspaceFolders[k] IN
            (IF Len(workspaceFolders) > 1 THEN Basename(r) \o <<"/">> ELSE <<>>)
            \o RelativeTo(r, abs)

\* one glob segment against one path segment; '*' matches any run of characters
RECURSIVE WildMatch(_, _)
WildMatch(pat, s) ==
    IF pat = <<>> THEN s = <<>>
    ELSE IF pat[1] = "*"
         THEN WildMatch(Tail(pat), s) \/ (s # <<>> /\ WildMatch(pat, Tail(s)))
         ELSE s # <<>> /\ s[1] = pat[1] /\ WildMatch(Tail(pat), Tail(s))

\* a glob of the form **/seg1/.../segk against a folder-relative path: the
\* last k segments of the path match the k segments of the glob
GlobMatch(pattern, rel) ==
    /\ StartsWith(pattern, <<"*", "*", "/">>)
    /\ LET psegs == Split(Substring(pattern, 3))
           rsegs == Split(rel)
           off == Len(rsegs) - Len(psegs)
       IN /\ off >= 0
          /\ \A i \in 1..Len(psegs) : WildMatch(psegs[i], rsegs[off + i])

\* the exclude glob **/node_modules/**
ExcludedByNodeModules(rel) ==
    LET rsegs == Split(rel) IN \E i \in 1..(Len(rsegs) - 1) : rsegs[i] = NodeModules

\* the files vscode.workspace.findFiles(pattern, exclude) matches: files on
\* disk inside an open folder whose folder-relative path matches the glob
FileMatches(f, pattern, excludeNodeModules) ==
    LET k == FolderIndexOf(f) IN
    /\ k > 0
    /\ LET rel == RelativeTo(workspaceFolders[k], f) IN
       /\ GlobMatch(pattern, rel)
       /\ ~(excludeNodeModules /\ ExcludedByNodeModules(rel))

FindFilesMatches(pattern, excludeNodeModules) ==
    {f \in disk : FileMatches(f, pattern, excludeNodeModules)}

\* the possible results of findFiles(pattern, exclude, maxResults): the
\* matches, at most maxResults of them, in an order the search chooses
FindFilesResults(pattern, excludeNodeModules, maxResults) ==
    LET m == FindFilesMatches(pattern, excludeNodeModules)
    IN Orderings(m, Min(maxResults, Cardinality(m)))

(***************************************************************************)
(* ChatPanelProvider: the pure helpers.                                     *)
(***************************************************************************)
\* the character class [a-zA-Z0-9./_-] of fileRefRegex
RefChar(c) ==
    \/ IndexIn(c, LowerLetters) > 0
    \/ IndexIn(c, UpperLetters) > 0
    \/ c \in Digits
    \/ c \in {".", "/", "_", "-"}

\* the end of the maximal run of RefChar characters that starts at i
RunEnd(text, i) ==
    CHOOSE e \in i..Len(text) :
        /\ \A j \in i..e : RefChar(text[j])
        /\ (e = Len(text) \/ ~RefChar(text[e + 1]))

\* mutant: the trailing punctuation is left on the match
StripNothing(s) == s

\* match[1].replace(/[.,;!?]*$/, '')
RECURSIVE StripTrailingPunctuation(_)
StripTrailingPunctuation(s) ==
    IF s # <<>> /\ s[Len(s)] \in {".", ",", ";", "!", "?"}
    THEN StripTrailingPunctuation(SubSeq(s, 1, Len(s) - 1))
    ELSE s

\* mutant: the element is added even when the Set holds it
SetAddAlways(seq, x) == Append(seq, x)

\* Set.add on a Set kept in insertion order
SetAdd(seq, x) ==
    IF \E i \in 1..Len(seq) : seq[i] = x THEN seq ELSE Append(seq, x)

\* [...new Set(seq)]
RECURSIVE SetOf(_, _)
SetOf(seq, acc) ==
    IF seq = <<>> THEN acc ELSE SetOf(Tail(seq), SetAdd(acc, Head(seq)))

\* the exec loop of _extractFileReferences from index i on; the greedy class
\* run is maximal, so the optional extension group never adds to the match
RECURSIVE ScanReferences(_, _, _)
ScanReferences(text, i, acc) ==
    IF i > Len(text) THEN acc
    ELSE IF text[i] = "@" /\ i < Len(text) /\ RefChar(text[i + 1])
         THEN LET e == RunEnd(text, i + 1)
                  cleanPath == StripTrailingPunctuation(SubSeq(text, i + 1, e))
              IN ScanReferences(text, e + 1, SetAdd(acc, cleanPath))
         ELSE ScanReferences(text, i + 1, acc)

ExtractFileReferences(text) == ScanReferences(text, 1, <<>>)

\* mutant: the empty references are kept
FilterNothing(seq) == seq

\* seq.filter(keep)
RECURSIVE FilterNonEmpty(_)
FilterNonEmpty(seq) ==
    IF seq = <<>> THEN <<>>
    ELSE (IF Head(seq) # <<>> THEN <<Head(seq)>> ELSE <<>>) \o FilterNonEmpty(Tail(seq))

LangExts == <<<<".","j","s">>, <<".","j","s","x">>, <<".","t","s">>, <<".","t","s","x">>, <<".","c","s","s">>, <<".","s","c","s","s">>, <<".","h","t","m","l">>, <<".","j","s","o","n">>>>
LangNames == <<<<"J","a","v","a","S","c","r","i","p","t">>, <<"J","S","X">>, <<"T","y","p","e","S","c","r","i","p","t">>, <<"T","S","X">>, <<"C","S","S">>, <<"S","C","S","S">>, <<"H","T","M","L">>, <<"J","S","O","N">>>>

GetFileLanguage(filePath) ==
    LET ext == ToLowerCase(Extname(filePath))
        k == IndexIn(ext, LangExts)
    IN IF k > 0 THEN LangNames[k] ELSE ToUpperCase(Substring(ext, 1))

ChatImageExts == {<<".","p","n","g">>, <<".","j","p","g">>, <<".","j","p","e","g">>, <<".","g","i","f">>, <<".","b","m","p">>, <<".","s","v","g">>}

IsImageFileChat(filePath) == ToLowerCase(Extname(filePath)) \in ChatImageExts

\* a finished promise: fulfilled with a value or rejected with an error
Fulfilled(v) == [ok |-> TRUE, val |-> v]
Rejected(e) == [ok |-> FALSE, val |-> e]

\* document.getText() of the file at p
FileText(p) == [kind |-> "text", path |-> Normalize(p)]

\* openTextDocument succeeds on the files on disk
IsFile(p) == Normalize(p) \in disk

\* the directories on disk: the root, the open folders, every directory
\* above a file or an open folder, and the directories createFile has made
IsDirectory(n) ==
    \/ n = <<"/">>
    \/ n \in madeDirs
    \/ \E f \in disk : Inside(n, f)
    \/ \E i \in 1..Len(workspaceFolders) :
          workspaceFolders[i] = n \/ Inside(n, workspaceFolders[i])

\* the entry called name of the directory cur
Child(cur, name) ==
    IF cur = <<"/">> THEN cur \o name ELSE cur \o <<"/">> \o name

\* the file system follows the components of a path one by one from cur:
\* whatever a further component is, what has been reached must be a
\* directory; '..' goes to the directory above; a name must be an entry of the
\* directory. The file or directory reached, <<>> when the lookup fails
RECURSIVE Lookup(_, _)
Lookup(segs, cur) ==
    IF segs = <<>> THEN cur
    ELSE IF ~IsDirectory(cur) THEN <<>>
    ELSE LET seg == segs[1] IN
         IF seg = <<>> \/ seg = <<".">> THEN Lookup(Tail(segs), cur)
         ELSE IF seg = <<".", ".">> THEN Lookup(Tail(segs), Dirname(cur))
         ELSE LET next == Child(cur, seg) IN
              IF next \in disk \/ IsDirectory(next)
              THEN Lookup(Tail(segs), next)
              ELSE <<>>

\* what an absolute path leads to on disk, <<>> when it leads nowhere
RealPath(p) ==
    IF IsAbsolute(p) THEN Lookup(Split(p), <<"/">>) ELSE <<>>

\* fs.promises.access and fs.statSync succeed when the path leads to a file or
\* a directory; the path of a file followed by a slash fails with ENOTDIR, a
\* path through a missing directory with ENOENT
PathExists(p) == RealPath(p) # <<>>

\* mutant: the path is joined to the first folder, when there is one, even
\* when it is absolute
ChatResolveAlwaysJoined(filePath) ==
    IF workspaceFolders = <<>> THEN filePath
    ELSE PathJoin(workspaceFolders[1], filePath)

\* workspaceFolders[0].uri of an empty array: reading a property of undefined
\* throws a TypeError
NoFirstFolder(filePath) == ~IsAbsolute(filePath) /\ workspaceFolders = <<>>

TypeError == [kind |-> "TypeError", path |-> <<>>]

\* the path _readFileContent reads for filePath, a folder being open
ChatResolve(filePath) ==
    IF IsAbsolute(filePath) THEN filePath
    ELSE PathJoin(workspaceFolders[1], filePath)

\* mutant: the image test comes before the test for an open folder
ReadFileContentChatImageFirst(filePath) ==
    IF IsImageFileChat(filePath)
    THEN Fulfilled([kind |-> "Image file", path |-> Basename(filePath)])
    ELSE IF NoWorkspaceFolders
    THEN Rejected([kind |-> "No workspace folder", path |-> <<>>])
    ELSE IF NoFirstFolder(filePath)
    THEN Rejected(TypeError)
    ELSE IF IsFile(ChatResolve(filePath))
         THEN Fulfilled(FileText(ChatResolve(filePath)))
         ELSE Rejected([kind |-> "cannot open", path |-> ChatResolve(filePath)])

\* _readFileContent(filePath): how its promise ends
ReadFileContentChat(filePath) ==
    IF NoWorkspaceFolders
    THEN Rejected([kind |-> "No workspace folder", path |-> <<>>])
    ELSE IF NoFirstFolder(filePath)
    THEN Rejected(TypeError)
    ELSE LET fullPath == ChatResolve(filePath) IN
         IF IsImageFileChat(filePath)
         THEN Fulfilled([kind |-> "Image file", path |-> Basename(filePath)])
         ELSE IF IsFile(fullPath)
              THEN Fulfilled(FileText(fullPath))
              ELSE Rejected([kind |-> "cannot open", path |-> fullPath])

FindFilesInWorkspaceLimit == 5

\* the glob _findFilesInWorkspace searches for
FindFilesInWorkspacePattern(query) == <<"*", "*", "/">> \o query

\* the results _findFilesInWorkspace(query) can return
FindFilesInWorkspace(query) ==
    FindFilesResults(FindFilesInWorkspacePattern(query), TRUE, FindFilesInWorkspaceLimit)

\* the file blocks appended to the prompt, one per entry of fileContents
PromptBlocks(fileContents) ==
    [i \in 1..Len(fileContents) |->
        [path |-> fileContents[i].path,
         language |-> GetFileLanguage(fileContents[i].path),
         content |-> fileContents[i].content]]

\* the prompt in the order it is written: the text, then, when there are
\* files, the heading and one block per file
PromptParts(text, fileContents) ==
    <<[part |-> "text", text |-> text]>>
    \o (IF Len(fileContents) > 0
        THEN <<[part |-> "Referenced Files"]>>
             \o [i \in 1..Len(fileContents) |->
                   [part |-> "File",
                    path |-> fileContents[i].path,
                    language |-> GetFileLanguage(fileContents[i].path),
                    content |-> fileContents[i].content]]
        ELSE <<>>)

(***************************************************************************)
(* ChatPanelProvider._getWorkspaceFiles: patterns, dedup, ranking.          *)
(***************************************************************************)
SearchLimit == 20
ResponseLimit == 20

NormalizeQuery(query) == ToLowerCase(ReplaceBackslashes(query))

QueryFilename(normalizedQuery) ==
    LET queryParts == Split(normalizedQuery) IN queryParts[Len(queryParts)]

\* mutant: the bare filename is searched before the exact relative path
SearchPatternsFilenameFirst(normalizedQuery) ==
    LET filename == QueryFilename(normalizedQuery) IN
    << <<"*", "*", "/">> \o filename,
       <<"*", "*", "/">> \o normalizedQuery,
       <<"*", "*", "/", "*">> \o filename \o <<"*">>,
       <<"*", "*", "/">> \o filename \o <<".", "*">>,
       <<"*", "*", "/", "*">> \o filename \o <<".", "*">> >>

SearchPatterns(normalizedQuery) ==
    LET filename == QueryFilename(normalizedQuery) IN
    << <<"*", "*", "/">> \o normalizedQuery,
       <<"*", "*", "/">> \o filename,
       <<"*", "*", "/", "*">> \o filename \o <<"*">>,
       <<"*", "*", "/">> \o filename \o <<".", "*">>,
       <<"*", "*", "/", "*">> \o filename \o <<".", "*">> >>

\* the Uris a search returns; 'search' records which of the five searches
\* returned the Uri
TagHits(result, k) == [i \in 1..Len(result) |-> [fsPath |-> result[i], search |-> k]]

\* files.find(f => f.fsPath === fsPath)
FindByFsPath(files, fsPath) ==
    files[CHOOSE i \in 1..Len(files) :
            /\ files[i].fsPath = fsPath
            /\ \A j \in 1..(i-1) : files[j].fsPath # fsPath]

\* mutant: the hits are passed on without deduplication
UniqueFilesKeepingAll(files) == files

\* Array.from(new Set(files.map(f => f.fsPath))).map(p => files.find(...))
UniqueFiles(files) ==
    LET paths == SetOf([i \in 1..Len(files) |-> files[i].fsPath], <<>>)
    IN [i \in 1..Len(paths) |-> FindByFsPath(files, paths[i])]

\* the record built for one Uri
FileListEntry(file) ==
    LET relativePath == AsRelativePath(file.fsPath) IN
    [path |-> relativePath,
     fullPath |-> file.fsPath,
     name |-> Basename(file.fsPath),
     directory |-> Dirname(relativePath)]

\* mutant: the comparator looks at the path length only
CompareFilesByLength(a, b, normalizedQuery) == Len(a.path) - Len(b.path)

\* the comparator handed to fileList.sort
CompareFiles(a, b, normalizedQuery) ==
    LET aExact == ToLowerCase(a.path) = normalizedQuery
        bExact == ToLowerCase(b.path) = normalizedQuery
        aDirMatch == Includes(ToLowerCase(a.path), normalizedQuery)
        bDirMatch == Includes(ToLowerCase(b.path), normalizedQuery)
    IN IF aExact /\ ~bExact THEN -1
       ELSE IF ~aExact /\ bExact THEN 1
       ELSE IF aDirMatch /\ ~bDirMatch THEN -1
       ELSE IF ~aDirMatch /\ bDirMatch THEN 1
       ELSE Len(a.path) - Len(b.path)

\* Array.prototype.sort is stable: x goes before the first element it is
\* strictly less than
RECURSIVE InsertSorted(_, _, _)
InsertSorted(x, sorted, normalizedQuery) ==
    IF sorted = <<>> THEN <<x>>
    ELSE IF CompareFiles(x, Head(sorted), normalizedQuery) < 0
         THEN <<x>> \o sorted
         ELSE <<Head(sorted)>> \o InsertSorted(x, Tail(sorted), normalizedQuery)

RECURSIVE SortFileList(_, _)
SortFileList(list, normalizedQuery) ==
    IF list = <<>> THEN <<>>
    ELSE InsertSorted(list[Len(list)],
                      SortFileList(SubSeq(list, 1, Len(list) - 1), normalizedQuery),
                      normalizedQuery)

CommonExtensions ==
    {<<".","j","s">>, <<".","j","s","x">>, <<".","t","s">>, <<".","t","s","x">>, <<".","v","u","e">>, <<".","p","y">>, <<".","j","a","v","a">>, <<".","c">>, <<".","c","p","p">>}

\* mutant: the exact match of the path adds 500 only
CalculateRelevanceLowExact(file, query) ==
    LET lowerQuery == ToLowerCase(query)
        lowerPath == ToLowerCase(file.path)
        lowerName == ToLowerCase(file.name)
        lowerDir == ToLowerCase(file.directory)
        base == Basename(lowerQuery)
    IN (IF lowerPath = lowerQuery THEN 500 ELSE 0)
       + (IF Includes(lowerPath, lowerQuery) THEN 500 ELSE 0)
       + (IF Includes(lowerDir, lowerQuery) THEN 300 ELSE 0)
       + (IF lowerName = base THEN 200 ELSE 0)
       + (IF StartsWith(lowerName, base) THEN 100 ELSE 0)
       + (IF Includes(lowerName, base) THEN 50 ELSE 0)
       + (IF ToLowerCase(Extname(file.name)) \in CommonExtensions THEN 20 ELSE 0)

\* _calculateRelevance(file, query): the additive relevance score
CalculateRelevance(file, query) ==
    LET lowerQuery == ToLowerCase(query)
        lowerPath == ToLowerCase(file.path)
        lowerName == ToLowerCase(file.name)
        lowerDir == ToLowerCase(file.directory)
        base == Basename(lowerQuery)
    IN (IF lowerPath = lowerQuery THEN 1000 ELSE 0)
       + (IF Includes(lowerPath, lowerQuery) THEN 500 ELSE 0)
       + (IF Includes(lowerDir, lowerQuery) THEN 300 ELSE 0)
       + (IF lowerName = base THEN 200 ELSE 0)
       + (IF StartsWith(lowerName, base) THEN 100 ELSE 0)
       + (IF Includes(lowerName, base) THEN 50 ELSE 0)
       + (IF ToLowerCase(Extname(file.name)) \in CommonExtensions THEN 20 ELSE 0)

\* list.slice(0, n)
Slice(list, n) == SubSeq(list, 1, Min(n, Len(list)))

\* mutant: the list is cut to the response limit before it is sorted
RankedFileListCutFirst(files, normalizedQuery) ==
    LET uniqueFiles == UniqueFiles(files)
        fileList == [i \in 1..Len(uniqueFiles) |-> FileListEntry(uniqueFiles[i])]
    IN SortFileList(Slice(fileList, ResponseLimit), normalizedQuery)

\* what _getWorkspaceFiles posts for the concatenated hits
RankedFileList(files, normalizedQuery) ==
    LET uniqueFiles == UniqueFiles(files)
        fileList == [i \in 1..Len(uniqueFiles) |-> FileListEntry(uniqueFiles[i])]
    IN Slice(SortFileList(fileList, normalizedQuery), ResponseLimit)

(***************************************************************************)
(* FileManager: the pure helpers.                                           *)
(***************************************************************************)
ImageExtensions ==
    {<<".","p","n","g">>, <<".","j","p","g">>, <<".","j","p","e","g">>, <<".","g","i","f">>, <<".","b","m","p">>, <<".","s","v","g">>, <<".","w","e","b","p">>, <<".","i","c","o">>}

IsImageFile(filePath) == ToLowerCase(Extname(filePath)) \in ImageExtensions

\* getImageMetadata: the full summary when statSync succeeds, else the reduced one
GetImageMetadata(filePath) ==
    [kind |-> "Image",
     name |-> Basename(filePath),
     type |-> ToUpperCase(Substring(Extname(filePath), 1)),
     path |-> filePath,
     stats |-> PathExists(filePath)]

\* the loop over the folders: index of the first folder under which
\* relativePath exists, 0 when there is none
FirstFolderWith(relativePath) ==
    IF \E i \in 1..Len(workspaceFolders) :
          PathExists(PathJoin(workspaceFolders[i], relativePath))
    THEN CHOOSE i \in 1..Len(workspaceFolders) :
          /\ PathExists(PathJoin(workspaceFolders[i], relativePath))
          /\ \A j \in 1..(i-1) : ~PathExists(PathJoin(workspaceFolders[j], relativePath))
    ELSE 0

\* the glob of the fallback search
FallbackPattern(relativePath) == <<"*", "*", "/">> \o Basename(relativePath)

\* the results the fallback search can return: no exclude, no maximum
FallbackResults(relativePath) ==
    LET m == FindFilesMatches(FallbackPattern(relativePath), FALSE)
    IN Orderings(m, Cardinality(m))

\* is uri the file the fallback is looking for
IsExactMatch(uri, relativePath) == AsRelativePath(uri) = relativePath

\* mutant: the first hit of the fallback search is taken whatever its path
ExactMatchAnyHit(found, relativePath) == IF found = <<>> THEN <<>> ELSE found[1]

\* files.find(file => asRelativePath(file) === relativePath), <<>> for undefined
ExactMatch(found, relativePath) ==
    IF \E i \in 1..Len(found) : IsExactMatch(found[i], relativePath)
    THEN found[CHOOSE i \in 1..Len(found) :
                 /\ IsExactMatch(found[i], relativePath)
                 /\ \A j \in 1..(i-1) : ~IsExactMatch(found[j], relativePath)]
    ELSE <<>>

\* the error readFileContent rethrows
CouldNotRead(filePath, error) ==
    [kind |-> "Could not read file", path |-> filePath, cause |-> error]

FileNotFound(relativePath) == [kind |-> "File not found", path |-> relativePath]

\* the last step of readFileContent on the resolved path
ReadResolved(filePath, fullPath) ==
    IF IsImageFile(fullPath) THEN Fulfilled(GetImageMetadata(fullPath))
    ELSE IF IsFile(fullPath) THEN Fulfilled(FileText(fullPath))
    ELSE Rejected(CouldNotRead(filePath, [kind |-> "cannot open", path |-> fullPath]))

\* the text of the summary getImageMetadata returns (the size and date lines
\* and the closing sentence left out)
ImageMetadataText(summary) ==
    <<"[","I","m","a","g","e",":"," ">> \o summary.name \o <<"]"," ","T","y","p","e",":"," ">> \o summary.type
    \o <<" ","P","a","t","h",":"," ">> \o summary.path

\* the text _readFileContent returns for an image
ImageFileText(summary) == <<"[","I","m","a","g","e"," ","f","i","l","e",":"," ">> \o summary.path \o <<"]">>

\* the string a fulfilled read of an image holds
SummaryText(summary) ==
    IF summary.kind = "Image" THEN ImageMetadataText(summary)
    ELSE IF summary.kind = "Image file" THEN ImageFileText(summary)
    ELSE <<>>

(***************************************************************************)
(* The requests the model is run on.                                        *)
(***************************************************************************)
Texts == {<<"h","i">>, <<"@","a",".","t","s">>, <<"@","z","z"," ","@","a",".","t","s",".">>, <<"@","c",".","t","s"," ","@","a",".","t","s">>, <<"@","d","/","a",".","t","s","?">>}
AttachChoices == {<<"a",".","t","s">>, <<"/","u","/","a",".","t","s">>, <<"c",".","t","s">>, <<"p",".","p","n","g">>}
Queries == {<<>>, <<"A",".","t","s">>, <<"t","s">>, <<"d","/","a",".","t","s">>,
            <<"d","\\","a",".","t","s">>}
FilePaths == {<<"a",".","t","s">>, <<"c",".","t","s">>, <<"/","o","/","s",".","t","s">>, <<".",".","/","o","/","s",".","t","s">>, <<"p",".","p","n","g">>, <<"/","o","/","p",".","p","n","g">>, <<"v","/","c",".","t","s">>, <<"V","/","c",".","t","s">>, <<"z","z">>}

AttachLists == UNION {[1..n -> AttachChoices] : n \in 0..MaxAttached}

(***************************************************************************)
(* State of the handler in progress and of what it has posted.              *)
(***************************************************************************)
VARIABLES
    pc,              \* where the handler stands; "idle" before, "done" after
    request,         \* the request of the handler in progress, or of the last one
    fileReferences,  \* _handleChatMessage: the tokens extracted from the text
    firstMatches,    \* _handleChatMessage: files[0]?.fsPath per token, <<>> for undefined
    allFiles,        \* _handleChatMessage: attached and resolved files, deduplicated
    readOutcomes,    \* _handleChatMessage: how the read of each of allFiles ended
    prompt,          \* _handleChatMessage: the prompt built
    aiPrompts,       \* the prompts handed to the generation endpoint
    patternIndex,    \* _getWorkspaceFiles: the pattern being searched
    files,           \* _getWorkspaceFiles: the hits so far
    uniqueFiles,     \* _getWorkspaceFiles: the hits without duplicates
    createCall,      \* FileManager.createFile: the call in progress and the calls so far
    folderIndex,     \* FileManager.resolveFilePath: the folder being tried
    fullPath,        \* FileManager.readFileContent: the resolved path
    result,          \* FileManager.readFileContent: how the call ended
    posted,          \* the messages posted to the webview for the request
    toExtension,     \* the messages the webview has posted, not yet received
    handlers,        \* the invocations of the message handler, in order of receipt
    outbox,          \* the messages posted to the webview, not yet handled by it
    webview,         \* the state of ChatApp
    view             \* the view resolveWebviewView was last called with

\* one handler, from its request to its return
handlerVars == <<workspaceFolders, foldersDefined, disk, madeDirs, createCall, folderIndex, pc, request, fileReferences, firstMatches, allFiles,
                 readOutcomes, prompt, aiPrompts, patternIndex, files, uniqueFiles,
                 fullPath, result, posted>>

\* the webview and the handlers that run while others are awaiting
concurrentVars == <<toExtension, handlers, outbox, webview, view>>

vars == <<workspaceFolders, foldersDefined, disk, madeDirs, createCall, folderIndex, pc, request, fileReferences, firstMatches, allFiles,
          readOutcomes, prompt, aiPrompts, patternIndex, files, uniqueFiles,
          fullPath, result, posted, toExtension, handlers, outbox, webview, view>>

NoRequest ==
    [command |-> "none", text |-> <<>>, attachedFiles |-> <<>>, query |-> <<>>,
     filePath |-> <<>>]

\* createFile is not running
NoCreate == [pc |-> "idle", filePath |-> <<>>, calls |-> 0]

NoPrompt == [text |-> <<>>, blocks |-> <<>>, parts |-> <<>>]
Pending == [ok |-> FALSE, val |-> [kind |-> "pending"]]

\* no handler has run yet
\* useState(...) of ChatApp
ChatAppInit ==
    [messages |-> <<>>, input |-> <<>>, attachedFiles |-> <<>>, isLoading |-> FALSE,
     suggestions |-> <<>>, showSuggestions |-> FALSE]

\* no message has been posted yet, in either direction
NoMessages ==
    /\ toExtension = <<>>
    /\ handlers = <<>>
    /\ outbox = <<>>
    /\ webview = ChatAppInit
    /\ view = 1

NoHandler ==
    /\ NoMessages
    /\ pc = "idle"
    /\ request = NoRequest
    /\ fileReferences = <<>>
    /\ firstMatches = <<>>
    /\ allFiles = <<>>
    /\ readOutcomes = <<>>
    /\ prompt = NoPrompt
    /\ aiPrompts = <<>>
    /\ patternIndex = 0
    /\ files = <<>>
    /\ uniqueFiles = <<>>
    /\ folderIndex = 0
    /\ madeDirs = {}
    /\ createCall = NoCreate
    /\ fullPath = <<>>
    /\ result = Pending
    /\ posted = <<>>

Init ==
    /\ workspaceFolders \in WorkspaceChoices
    /\ foldersDefined \in FoldersDefinedChoices
    /\ disk \in DiskChoices
    /\ NoHandler

(***************************************************************************)
(* ChatPanelProvider._handleChatMessage (sendMessage).                      *)
(***************************************************************************)
\* what one token can resolve to: files[0]?.fsPath of a search result, or
\* undefined (<<>>) when the search threw
FirstMatchChoices(ref) ==
    {IF found = <<>> THEN <<>> ELSE found[1] : found \in FindFilesInWorkspace(ref)}
    \cup {<<>>}

\* mutant: the filter of the unresolved tokens is forgotten
ResolvedFilesUnfiltered(matches) == matches

\* the type guard that removes the tokens that resolved to nothing
ResolvedFiles(matches) == FilterNonEmpty(matches)

\* the attached files followed by the resolved ones, each string once
CombineFiles(attachedFiles, resolvedFiles) ==
    SetOf(attachedFiles \o resolvedFiles, <<>>)

\* the handler starts: the tokens are extracted
HandleChatMessage(text, attachedFiles) ==
    /\ pc = "idle"
    /\ request' = [NoRequest EXCEPT !.command = "sendMessage", !.text = text,
                                    !.attachedFiles = attachedFiles]
    /\ fileReferences' = FilterNonEmpty(ExtractFileReferences(text))
    /\ pc' = "resolveReferences"
    /\ UNCHANGED <<workspaceFolders, foldersDefined, disk, madeDirs, createCall, folderIndex, firstMatches, allFiles, readOutcomes, prompt,
                   aiPrompts, patternIndex, files, uniqueFiles, fullPath, result, posted>>
    /\ UNCHANGED concurrentVars

\* the searches of all tokens have ended: the file set is formed
ResolveReferences ==
    /\ pc = "resolveReferences"
    /\ \E matches \in [1..Len(fileReferences) -> disk \cup {<<>>}] :
          /\ \A i \in 1..Len(fileReferences) :
                matches[i] \in FirstMatchChoices(fileReferences[i])
          /\ firstMatches' = matches
          /\ allFiles' = CombineFiles(request.attachedFiles, ResolvedFiles(matches))
    /\ pc' = "readFiles"
    /\ UNCHANGED <<workspaceFolders, foldersDefined, disk, madeDirs, createCall, folderIndex, request, fileReferences, readOutcomes, prompt,
                   aiPrompts, patternIndex, files, uniqueFiles, fullPath, result, posted>>
    /\ UNCHANGED concurrentVars

\* mutant: the catch block posts the error as a response of the assistant
ErrorMessageAsResponse(error) ==
    [command |-> "aiResponse", text |-> error, referencedFiles |-> <<>>]

\* the message the catch blocks post
ErrorMessage(error) == [command |-> "error", text |-> error]

\* the error _callAI throws before any request when no API key is configured
NoApiKey == [kind |-> "no key", path |-> <<>>]

\* the reads of all files have ended. A rejection is caught and posted.
\* Otherwise the prompt is built and _callAI is entered in the same turn:
\* without an API key it throws and the error is posted; with one the prompt is
\* handed to the endpoint by axios.post and the handler awaits the reply
ReadFiles ==
    /\ pc = "readFiles"
    /\ LET outcomes == [i \in 1..Len(allFiles) |-> ReadFileContentChat(allFiles[i])]
           fileContents == [i \in 1..Len(allFiles) |->
                               [path |-> AsRelativePath(allFiles[i]),
                                content |-> outcomes[i].val]]
           built == [text |-> request.text,
                     blocks |-> PromptBlocks(fileContents),
                     parts |-> PromptParts(request.text, fileContents)]
       IN /\ readOutcomes' = outcomes
          /\ IF \A i \in 1..Len(allFiles) : outcomes[i].ok
             THEN /\ prompt' = built
                  /\ \E apiKey \in BOOLEAN :
                        IF apiKey
                        THEN /\ aiPrompts' = Append(aiPrompts, built)
                             /\ pc' = "callAI"
                             /\ posted' = posted
                        ELSE /\ aiPrompts' = aiPrompts
                             /\ posted' = Append(posted, ErrorMessage(NoApiKey))
                             /\ pc' = "done"
             ELSE /\ \E i \in 1..Len(allFiles) :
                        /\ ~outcomes[i].ok
                        /\ posted' = Append(posted, ErrorMessage(outcomes[i].val))
                  /\ pc' = "done"
                  /\ UNCHANGED <<prompt, aiPrompts>>
    /\ UNCHANGED <<workspaceFolders, foldersDefined, disk, madeDirs, createCall, folderIndex, request, fileReferences, firstMatches, allFiles,
                   patternIndex, files, uniqueFiles, fullPath, result>>
    /\ UNCHANGED concurrentVars

\* the reply of the endpoint arrives: a failed request or a completion
CallAI ==
    /\ pc = "callAI"
    /\ \E outcome \in {"request failed", "completion"} :
          posted' = Append(posted,
                IF outcome = "completion"
                THEN [command |-> "aiResponse", text |-> "completion",
                      referencedFiles |-> allFiles]
                ELSE ErrorMessage([kind |-> outcome, path |-> <<>>]))
    /\ pc' = "done"
    /\ UNCHANGED <<workspaceFolders, foldersDefined, disk, madeDirs, createCall, folderIndex, request, fileReferences, firstMatches, allFiles,
                   readOutcomes, prompt, aiPrompts, patternIndex, files, uniqueFiles,
                   fullPath, result>>
    /\ UNCHANGED concurrentVars

(***************************************************************************)
(* ChatPanelProvider._getWorkspaceFiles (getWorkspaceFiles).                *)
(***************************************************************************)
\* the handler starts; with no folder open it returns at once
GetWorkspaceFiles(query) ==
    /\ pc = "idle"
    /\ request' = [NoRequest EXCEPT !.command = "getWorkspaceFiles", !.query = query]
    /\ pc' = IF NoWorkspaceFolders THEN "done" ELSE "search"
    /\ patternIndex' = IF NoWorkspaceFolders THEN 0 ELSE 1
    /\ UNCHANGED <<workspaceFolders, foldersDefined, disk, madeDirs, createCall, folderIndex, fileReferences, firstMatches, allFiles,
                   readOutcomes, prompt, aiPrompts, files, uniqueFiles, fullPath, result,
                   posted>>
    /\ UNCHANGED concurrentVars

\* one search returns; after the last one the hits are deduplicated, ranked
\* and posted
SearchReturns ==
    /\ pc = "search"
    /\ LET normalizedQuery == NormalizeQuery(request.query)
           patterns == SearchPatterns(normalizedQuery)
       IN \E found \in FindFilesResults(patterns[patternIndex], TRUE, SearchLimit) :
            LET all == files \o TagHits(found, patternIndex) IN
            /\ files' = all
            /\ IF patternIndex < Len(patterns)
               THEN /\ patternIndex' = patternIndex + 1
                    /\ UNCHANGED <<pc, uniqueFiles, posted>>
               ELSE /\ uniqueFiles' = UniqueFiles(all)
                    /\ posted' = Append(posted,
                          [command |-> "workspaceFiles",
                           files |-> RankedFileList(all, normalizedQuery)])
                    /\ pc' = "done"
                    /\ UNCHANGED patternIndex
    /\ UNCHANGED <<workspaceFolders, foldersDefined, disk, madeDirs, createCall, folderIndex, request, fileReferences, firstMatches, allFiles,
                   readOutcomes, prompt, aiPrompts, fullPath, result>>
    /\ UNCHANGED concurrentVars

\* one search throws: an empty list is posted
SearchThrows ==
    /\ pc = "search"
    /\ posted' = Append(posted, [command |-> "workspaceFiles", files |-> <<>>])
    /\ pc' = "done"
    /\ UNCHANGED <<workspaceFolders, foldersDefined, disk, madeDirs, createCall, folderIndex, request, fileReferences, firstMatches, allFiles,
                   readOutcomes, prompt, aiPrompts, patternIndex, files, uniqueFiles,
                   fullPath, result>>
    /\ UNCHANGED concurrentVars

(***************************************************************************)
(* ChatPanelProvider._getFileContent (getFileContent).                      *)
(***************************************************************************)
GetFileContent(filePath) ==
    /\ pc = "idle"
    /\ request' = [NoRequest EXCEPT !.command = "getFileContent", !.filePath = filePath]
    /\ pc' = "getFileContent"
    /\ UNCHANGED <<workspaceFolders, foldersDefined, disk, madeDirs, createCall, folderIndex, fileReferences, firstMatches, allFiles,
                   readOutcomes, prompt, aiPrompts, patternIndex, files, uniqueFiles,
                   fullPath, result, posted>>
    /\ UNCHANGED concurrentVars

\* _readFileContent has ended: its content or an error is posted
GetFileContentEnds ==
    /\ pc = "getFileContent"
    /\ LET outcome == ReadFileContentChat(request.filePath) IN
       /\ readOutcomes' = <<outcome>>
       /\ posted' = Append(posted,
             IF outcome.ok
             THEN [command |-> "fileContent", filePath |-> request.filePath,
                   content |-> outcome.val]
             ELSE ErrorMessage([kind |-> "Could not read file", path |-> request.filePath]))
    /\ pc' = "done"
    /\ UNCHANGED <<workspaceFolders, foldersDefined, disk, madeDirs, createCall, folderIndex, request, fileReferences, firstMatches, allFiles,
                   prompt, aiPrompts, patternIndex, files, uniqueFiles, fullPath, result>>
    /\ UNCHANGED concurrentVars

(***************************************************************************)
(* FileManager.readFileContent.                                             *)
(***************************************************************************)
\* the path is resolved: an image is summarised at once, getImageMetadata
\* being synchronous; any other file is opened and the call awaits it
Resolved(filePath, resolvedPath) ==
    /\ fullPath' = resolvedPath
    /\ IF IsImageFile(resolvedPath)
       THEN /\ result' = ReadResolved(filePath, resolvedPath)
            /\ pc' = "done"
       ELSE /\ result' = result
            /\ pc' = "read"

\* the call starts: undefined folders throw at once; an absolute path is taken
\* as it is; a relative one goes to resolveFilePath, which asks for access to
\* the path under the first folder, and with no folder for the fallback search
ReadFileContent(filePath) ==
    /\ pc = "idle"
    /\ request' = [NoRequest EXCEPT !.command = "readFileContent", !.filePath = filePath]
    /\ IF NoWorkspaceFolders
       THEN /\ result' = Rejected([kind |-> "No workspace folder open", path |-> <<>>])
            /\ pc' = "done"
            /\ UNCHANGED <<fullPath, folderIndex>>
       ELSE IF IsAbsolute(filePath)
       THEN /\ Resolved(filePath, filePath)
            /\ folderIndex' = folderIndex
       ELSE IF workspaceFolders = <<>>
       THEN /\ pc' = "findFiles"
            /\ UNCHANGED <<fullPath, result, folderIndex>>
       ELSE /\ pc' = "resolveFilePath"
            /\ folderIndex' = 1
            /\ UNCHANGED <<fullPath, result>>
    /\ UNCHANGED <<workspaceFolders, foldersDefined, disk, madeDirs, createCall, fileReferences, firstMatches, allFiles,
                   readOutcomes, prompt, aiPrompts, patternIndex, files, uniqueFiles, posted>>
    /\ UNCHANGED concurrentVars

\* resolveFilePath: fs.promises.access on the path under the folder being
\* tried settles. Success returns the path; failure goes on to the next folder,
\* and after the last one to the fallback search
ResolveFilePath ==
    /\ pc = "resolveFilePath"
    /\ LET candidate == PathJoin(workspaceFolders[folderIndex], request.filePath)
       IN IF PathExists(candidate)
          THEN /\ Resolved(request.filePath, candidate)
               /\ folderIndex' = folderIndex
          ELSE IF folderIndex < Len(workspaceFolders)
          THEN /\ folderIndex' = folderIndex + 1
               /\ UNCHANGED <<pc, fullPath, result>>
          ELSE /\ pc' = "findFiles"
               /\ UNCHANGED <<folderIndex, fullPath, result>>
    /\ UNCHANGED <<workspaceFolders, foldersDefined, disk, madeDirs, createCall, request, fileReferences, firstMatches, allFiles,
                   readOutcomes, prompt, aiPrompts, patternIndex, files, uniqueFiles,
                   posted>>
    /\ UNCHANGED concurrentVars

\* resolveFilePath: the fallback search settles: its exact match is returned,
\* else File not found is thrown; a failed search throws as well
ResolveFilePathSearch ==
    /\ pc = "findFiles"
    /\ LET relativePath == request.filePath
       IN \/ \E found \in FallbackResults(relativePath) :
               LET exactMatch == ExactMatch(found, relativePath) IN
               IF exactMatch # <<>>
               THEN Resolved(relativePath, exactMatch)
               ELSE /\ result' = Rejected(CouldNotRead(relativePath,
                                              FileNotFound(relativePath)))
                    /\ pc' = "done"
                    /\ fullPath' = fullPath
          \/ /\ result' = Rejected(CouldNotRead(relativePath,
                               [kind |-> "search failed", path |-> <<>>]))
             /\ pc' = "done"
             /\ fullPath' = fullPath
    /\ UNCHANGED <<workspaceFolders, foldersDefined, disk, madeDirs, createCall, folderIndex, request, fileReferences, firstMatches,
                   allFiles, readOutcomes, prompt, aiPrompts, patternIndex, files,
                   uniqueFiles, posted>>
    /\ UNCHANGED concurrentVars

\* openTextDocument on the resolved path settles: the text, or the error of a
\* file that cannot be opened
ReadEnds ==
    /\ pc = "read"
    /\ result' = ReadResolved(request.filePath, fullPath)
    /\ pc' = "done"
    /\ UNCHANGED <<workspaceFolders, foldersDefined, disk, madeDirs, createCall, folderIndex, request, fileReferences, firstMatches, allFiles,
                   readOutcomes, prompt, aiPrompts, patternIndex, files, uniqueFiles,
                   fullPath, posted>>
    /\ UNCHANGED concurrentVars

(***************************************************************************)
(* FileManager.createFile.                                                  *)
(***************************************************************************)
\* the paths createFile is called with
CreatePaths == {<<"/","u","/","n","/",".",".","/","z","z">>, <<"n","/","m","/">>}

\* the calls of createFile in a run
MaxCreates == 1

\* the path createFile writes for filePath, a folder being open
CreateResolve(filePath) ==
    IF IsAbsolute(filePath) THEN filePath
    ELSE PathJoin(workspaceFolders[1], filePath)

\* fs.promises.mkdir(dir, {recursive: true}) follows the components of dir from
\* cur and makes every directory that is missing; it fails at a component that
\* is a file, and the directories made before it stay
RECURSIVE MkdirRecursive(_, _, _)
MkdirRecursive(segs, cur, made) ==
    IF segs = <<>> THEN [ok |-> TRUE, made |-> made]
    ELSE LET seg == segs[1] IN
         IF seg = <<>> \/ seg = <<".">> THEN MkdirRecursive(Tail(segs), cur, made)
         ELSE IF seg = <<".", ".">> THEN MkdirRecursive(Tail(segs), Dirname(cur), made)
         ELSE LET next == Child(cur, seg) IN
              IF next \in disk THEN [ok |-> FALSE, made |-> made]
              ELSE IF IsDirectory(next) \/ next \in made
              THEN MkdirRecursive(Tail(segs), next, made)
              ELSE MkdirRecursive(Tail(segs), next, made \cup {next})

\* fs.promises.writeFile(fullPath, content): the files on disk afterwards. It
\* fails on a path that ends in a slash or leads to a directory, and below
\* what is not a directory
WriteFile(p) ==
    LET segs == Split(p)
        name == segs[Len(segs)]
        dir == Lookup(SubSeq(segs, 1, Len(segs) - 1), <<"/">>)
    IN IF name \in {<<>>, <<".">>, <<".", ".">>} \/ dir = <<>> THEN disk
       ELSE IF ~IsDirectory(dir) \/ IsDirectory(Child(dir, name)) THEN disk
       ELSE disk \cup {Child(dir, name)}

\* createFile(filePath, content) is called: with undefined folders, or with a
\* relative path and no folder, it throws and nothing is made; else it asks
\* for the directory and awaits it. It can run while a handler is awaiting
CreateFile(filePath) ==
    /\ createCall.pc = "idle"
    /\ createCall.calls < MaxCreates
    /\ ~NoWorkspaceFolders
    /\ ~NoFirstFolder(filePath)
    /\ createCall' = [pc |-> "mkdir", filePath |-> filePath,
                      calls |-> createCall.calls + 1]
    /\ UNCHANGED <<workspaceFolders, foldersDefined, disk, madeDirs, folderIndex, pc, request, fileReferences,
                   firstMatches, allFiles, readOutcomes, prompt, aiPrompts, patternIndex,
                   files, uniqueFiles, fullPath, result, posted>>
    /\ UNCHANGED concurrentVars

\* createFile: mkdir settles. When it has failed the call rejects, else it
\* asks for the file to be written and awaits that
CreateFileMkdir ==
    /\ createCall.pc = "mkdir"
    /\ LET dir == Dirname(CreateResolve(createCall.filePath))
           made == MkdirRecursive(Split(dir), <<"/">>, {})
       IN /\ madeDirs' = madeDirs \cup made.made
          /\ createCall' = [createCall EXCEPT !.pc = IF made.ok THEN "writeFile" ELSE "idle"]
    /\ UNCHANGED <<workspaceFolders, foldersDefined, disk, folderIndex, pc, request, fileReferences,
                   firstMatches, allFiles, readOutcomes, prompt, aiPrompts, patternIndex,
                   files, uniqueFiles, fullPath, result, posted>>
    /\ UNCHANGED concurrentVars

\* createFile: writeFile settles. When it has failed the call rejects; else the
\* file is on disk, and opening and showing it change nothing here
CreateFileWrite ==
    /\ createCall.pc = "writeFile"
    /\ disk' = WriteFile(CreateResolve(createCall.filePath))
    /\ createCall' = [createCall EXCEPT !.pc = "idle"]
    /\ UNCHANGED <<workspaceFolders, foldersDefined, madeDirs, folderIndex, pc, request, fileReferences,
                   firstMatches, allFiles, readOutcomes, prompt, aiPrompts, patternIndex,
                   files, uniqueFiles, fullPath, result, posted>>
    /\ UNCHANGED concurrentVars

(***************************************************************************)
(* AIService.generateResponse.                                              *)
(***************************************************************************)
\* the message lists generateResponse is called with
MessageLists == {<<[role |-> "user", content |-> <<"h","i">>]>>}

\* the ways the awaited request can end: a completion, a reply without
\* choices, and the errors the catch block rewrites or rethrows
GenerateOutcomes ==
    {"completion", "No response generated", "Invalid API key", "Rate limit exceeded",
     "temporarily unavailable", "Request timeout", "API Error", "other error"}

\* the call starts: without the key it throws at once, else the messages are
\* handed to the endpoint by axios.post and the call awaits the reply
GenerateResponse(messages) ==
    /\ pc = "idle"
    /\ request' = [NoRequest EXCEPT !.command = "generateResponse"]
    /\ \E apiKey \in BOOLEAN :
          IF apiKey
          THEN /\ aiPrompts' = Append(aiPrompts, [messages |-> messages])
               /\ pc' = "generateResponse"
               /\ result' = result
          ELSE /\ result' = Rejected([kind |-> "API key is not configured", path |-> <<>>])
               /\ pc' = "done"
               /\ aiPrompts' = aiPrompts
    /\ UNCHANGED <<workspaceFolders, foldersDefined, disk, madeDirs, createCall, folderIndex, fileReferences, firstMatches, allFiles,
                   readOutcomes, prompt, patternIndex, files, uniqueFiles, fullPath, posted>>
    /\ UNCHANGED concurrentVars

\* the reply arrives or the request fails
GenerateResponseEnds ==
    /\ pc = "generateResponse"
    /\ \E outcome \in GenerateOutcomes :
          result' = IF outcome = "completion"
                    THEN Fulfilled([kind |-> "completion", path |-> <<>>])
                    ELSE Rejected([kind |-> outcome, path |-> <<>>])
    /\ pc' = "done"
    /\ UNCHANGED <<workspaceFolders, foldersDefined, disk, madeDirs, createCall, folderIndex, request, fileReferences, firstMatches,
                   allFiles, readOutcomes, prompt, aiPrompts, patternIndex, files,
                   uniqueFiles, fullPath, posted>>
    /\ UNCHANGED concurrentVars

\* the handler has returned: its locals are gone, the next request can start
Return ==
    /\ pc = "done"
    /\ pc' = "idle"
    /\ request' = NoRequest
    /\ fileReferences' = <<>>
    /\ firstMatches' = <<>>
    /\ allFiles' = <<>>
    /\ readOutcomes' = <<>>
    /\ prompt' = NoPrompt
    /\ aiPrompts' = <<>>
    /\ patternIndex' = 0
    /\ files' = <<>>
    /\ uniqueFiles' = <<>>
    /\ folderIndex' = 0
    /\ fullPath' = <<>>
    /\ result' = Pending
    /\ posted' = <<>>
    /\ UNCHANGED <<workspaceFolders, foldersDefined, disk, madeDirs, createCall>>
    /\ UNCHANGED concurrentVars

Next ==
    \/ \E text \in Texts, attachedFiles \in AttachLists : HandleChatMessage(text, attachedFiles)
    \/ ResolveReferences
    \/ ReadFiles
    \/ CallAI
    \/ \E query \in Queries : GetWorkspaceFiles(query)
    \/ SearchReturns
    \/ SearchThrows
    \/ \E filePath \in FilePaths : GetFileContent(filePath)
    \/ GetFileContentEnds
    \/ \E filePath \in FilePaths : ReadFileContent(filePath)
    \/ ResolveFilePath
    \/ ResolveFilePathSearch
    \/ ReadEnds
    \/ \E filePath \in CreatePaths : CreateFile(filePath)
    \/ CreateFileMkdir
    \/ CreateFileWrite
    \/ \E messages \in MessageLists : GenerateResponse(messages)
    \/ GenerateResponseEnds
    \/ Return

Spec == Init /\ [][Next]_vars

(***************************************************************************)
(* sendMessage requests alone, every await of the handler completing or    *)
(* failing.                                                                 *)
(***************************************************************************)
NextSend ==
    \/ \E text \in Texts, attachedFiles \in AttachLists : HandleChatMessage(text, attachedFiles)
    \/ ResolveReferences
    \/ ReadFiles
    \/ CallAI
    \/ Return

\* the handler leaves an await: the searches of the tokens, the reads of the
\* files, the generation call have completed or failed
SearchesEnd == pc = "resolveReferences" /\ pc' = "readFiles"
ReadsEnd == pc = "readFiles" /\ pc' \in {"callAI", "done"}
GenerationEnds == pc = "callAI" /\ pc' = "done"

\* no awaited call stays pending for ever
SpecSend ==
    /\ Init
    /\ [][NextSend]_vars
    /\ WF_pc(SearchesEnd)
    /\ WF_pc(ReadsEnd)
    /\ WF_pc(GenerationEnds)

(***************************************************************************)
(* _getWorkspaceFiles on a folder with more matching files than the search  *)
(* and response limits: the handler is taken up where four of its five      *)
(* searches have returned.                                                  *)
(***************************************************************************)
MaxRankFiles == 22

FileUAOnly == <<"/","u","/","a">>

\* /u/ab.ts, /u/ac.ts, ...
RankFile(i) == RootU \o <<"/", "a", LowerLetters[i + 1], ".", "t", "s">>

\* the files of the folder, in the order of the directory listing
RankDiskSeq == [i \in 1..MaxRankFiles |-> RankFile(i)] \o <<FileUDA, FileUA, FileUAOnly>>

RankQueries == {<<"a">>, <<"A">>}

\* seq from its r-th element on, around the end, forwards or backwards
Arrange(seq, r, rev) ==
    LET n == Len(seq) IN
    [i \in 1..n |-> seq[(((IF rev THEN n - i ELSE i - 1) + r) % n) + 1]]

\* the first matches of a pattern in a listing of the folder, at most limit
RECURSIVE TakeMatching(_, _, _)
TakeMatching(seq, pattern, limit) ==
    IF seq = <<>> \/ limit = 0 THEN <<>>
    ELSE IF FileMatches(Head(seq), pattern, TRUE)
         THEN <<Head(seq)>> \o TakeMatching(Tail(seq), pattern, limit - 1)
         ELSE TakeMatching(Tail(seq), pattern, limit)

\* one result of a search: the folder is walked from its r-th file on,
\* forwards or backwards, until the search limit is reached
SearchDelivery(pattern, r, rev) ==
    TakeMatching(Arrange(RankDiskSeq, r, rev), pattern, SearchLimit)

\* the hits of the first n searches
RECURSIVE RankDelivery(_, _, _, _)
RankDelivery(patterns, n, r, rev) ==
    IF n = 0 THEN <<>>
    ELSE RankDelivery(patterns, n - 1, r, rev)
         \o TagHits(SearchDelivery(patterns[n], r, rev), n)

\* hits is what the first n searches can have returned: each search its
\* matches, none twice, as many as the search limit allows
IsDelivery(hits, patterns, n) ==
    \A k \in 1..n :
       /\ \A i \in 1..Len(hits) :
             hits[i].search = k
             => /\ hits[i].fsPath \in disk
                /\ FileMatches(hits[i].fsPath, patterns[k], TRUE)
       /\ \A i, j \in 1..Len(hits) :
             (i # j /\ hits[i].search = k /\ hits[j].search = k)
             => hits[i].fsPath # hits[j].fsPath
       /\ Cardinality({i \in 1..Len(hits) : hits[i].search = k})
             = Min(SearchLimit, Cardinality(FindFilesMatches(patterns[k], TRUE)))

\* what the first four searches for query can have returned, the folder
\* walked from each of its files on, forwards and backwards
RankDeliveries(query) ==
    LET patterns == SearchPatterns(NormalizeQuery(query)) IN
    {hits \in {RankDelivery(patterns, 4, r, rev) :
                  r \in 0..(Len(RankDiskSeq) - 1), rev \in BOOLEAN} :
        IsDelivery(hits, patterns, 4)}

\* four of the five searches have returned
InitRank ==
    /\ workspaceFolders = <<RootU>>
    /\ foldersDefined = TRUE
    /\ disk = {RankDiskSeq[i] : i \in 1..Len(RankDiskSeq)}
    /\ pc = "search"
    /\ request \in {[NoRequest EXCEPT !.command = "getWorkspaceFiles", !.query = query] :
                      query \in RankQueries}
    /\ patternIndex = 5
    /\ files \in RankDeliveries(request.query)
    /\ NoMessages
    /\ fileReferences = <<>>
    /\ firstMatches = <<>>
    /\ allFiles = <<>>
    /\ readOutcomes = <<>>
    /\ prompt = NoPrompt
    /\ aiPrompts = <<>>
    /\ uniqueFiles = <<>>
    /\ folderIndex = 0
    /\ madeDirs = {}
    /\ createCall = NoCreate
    /\ fullPath = <<>>
    /\ result = Pending
    /\ posted = <<>>

NextRank ==
    \/ SearchReturns
    \/ SearchThrows

SpecRank == InitRank /\ [][NextRank]_vars

(***************************************************************************)
(* _handleChatMessage on every text over a small alphabet: the tokens it    *)
(* extracts.                                                                *)
(***************************************************************************)
MaxTextLen == 5

ExtractAlphabet == {"@", "a", "b", ".", "!", "/"}

ExtractTexts == UNION {[1..n -> ExtractAlphabet] : n \in 0..MaxTextLen}

InitExtract ==
    /\ Init
    /\ workspaceFolders = <<>>
    /\ disk = {}

NextExtract ==
    \E text \in ExtractTexts : HandleChatMessage(text, <<>>)

SpecExtract == InitExtract /\ [][NextExtract]_vars

(***************************************************************************)
(* sendMessage in the workspace /ws that holds a README: the mention of the *)
(* file by its name, with and without its extension.                        *)
(***************************************************************************)
RootWs == <<"/","w","s">>

FileWsReadmeMd == <<"/","w","s","/","R","E","A","D","M","E",".","m","d">>
FileWsReadme == <<"/","w","s","/","r","e","a","d","m","e">>
FileWsDocReadme == <<"/","w","s","/","d","/","r","e","a","d","m","e">>
FileWsNotes == <<"/","w","s","/","n",".","t","x","t">>
ReadmeUniverse == {FileWsReadmeMd, FileWsReadme, FileWsDocReadme, FileWsNotes}

ReadmePrompt == <<"@","r","e","a","d","m","e"," ","s","u","m","m","a","r","i","z","e"," ","t","h","i","s">>
ReadmeMdPrompt == <<"@","R","E","A","D","M","E",".","m","d"," ","s","u","m","m","a","r","i","z","e"," ","t","h","i","s">>
ReadmeTexts == {ReadmePrompt, ReadmeMdPrompt, <<"@","n",".","t","x","t">>}
ReadmeAttachLists == {<<>>, << <<"R","E","A","D","M","E",".","m","d">> >>}

InitReadme ==
    /\ workspaceFolders = <<RootWs>>
    /\ foldersDefined = TRUE
    /\ disk \in SUBSET ReadmeUniverse
    /\ NoHandler

NextReadme ==
    \/ \E text \in ReadmeTexts, attachedFiles \in ReadmeAttachLists :
          HandleChatMessage(text, attachedFiles)
    \/ ResolveReferences
    \/ ReadFiles
    \/ CallAI
    \/ Return

SpecReadme == InitReadme /\ [][NextReadme]_vars

(***************************************************************************)
(* getWorkspaceFiles over files whose paths hold the query in their         *)
(* directory part: the relevance scores within one result set.              *)
(***************************************************************************)
FileUAtsxA == <<"/","u","/","a",".","t","s","x","/","a",".","t","s">>
FileUXDA == <<"/","u","/","x","/","d","/","a",".","t","s">>
ScoreUniverse == {FileUA, FileUDA, FileUAtsxA, FileUXDA}

ScoreQueries == {<<"a",".","t","s">>, <<"A",".","t","s">>, <<"d","/","a",".","t","s">>}

InitScore ==
    /\ workspaceFolders = <<RootU>>
    /\ foldersDefined = TRUE
    /\ disk \in SUBSET ScoreUniverse
    /\ NoHandler

NextScore ==
    \/ \E query \in ScoreQueries : GetWorkspaceFiles(query)
    \/ SearchReturns
    \/ SearchThrows
    \/ Return

SpecScore == InitScore /\ [][NextScore]_vars

(***************************************************************************)
(* The message handler of resolveWebviewView, invoked once per received     *)
(* message. An invocation runs to its next await; the other invocations    *)
(* and the webview run meanwhile.                                           *)
(***************************************************************************)
MaxPosts == 2

\* the locals of an invocation of the handler
NewHandler(message) ==
    [request |-> message, pc |-> "received", fileReferences |-> <<>>,
     firstMatches |-> <<>>, allFiles |-> <<>>, readOutcomes |-> <<>>, prompt |-> NoPrompt,
     aiPrompts |-> <<>>, patternIndex |-> 0, files |-> <<>>, uniqueFiles |-> <<>>,
     posted |-> <<>>, view |-> view]

\* the invocation up to its first await; a command without a case returns
Started(message) ==
    IF message.command = "sendMessage"
    THEN [NewHandler(message) EXCEPT
            !.fileReferences = FilterNonEmpty(ExtractFileReferences(message.text)),
            !.pc = "resolveReferences"]
    ELSE IF message.command = "getWorkspaceFiles"
    THEN [NewHandler(message) EXCEPT
            !.pc = IF NoWorkspaceFolders THEN "done" ELSE "search",
            !.patternIndex = IF NoWorkspaceFolders THEN 0 ELSE 1]
    ELSE IF message.command = "getFileContent"
    THEN [NewHandler(message) EXCEPT !.pc = "getFileContent"]
    ELSE [NewHandler(message) EXCEPT !.pc = "done"]

\* onDidReceiveMessage fires for the oldest message posted by the webview
Receive ==
    /\ toExtension # <<>>
    /\ handlers' = Append(handlers, Started(Head(toExtension)))
    /\ toExtension' = Tail(toExtension)
    /\ UNCHANGED <<outbox, webview, view>>
    /\ UNCHANGED handlerVars

\* mutant: the hits are pushed onto an array that the latest invocation has
\* replaced, as if files were a field of the provider
FilesOfLatest(i) == handlers[Len(handlers)].files

\* let files: the array of hits of invocation i
FilesOf(i) == handlers[i].files

\* this._view?.webview.postMessage(message) by invocation i, whose locals are h
PostMessage(i, h, message) ==
    /\ handlers' = [handlers EXCEPT ![i] = [h EXCEPT !.posted = Append(@, message)]]
    /\ outbox' = Append(outbox, [handler |-> i, message |-> message])

\* a search of invocation i returns
SearchReturnsOf(i) ==
    LET h == handlers[i]
        normalizedQuery == NormalizeQuery(h.request.query)
        patterns == SearchPatterns(normalizedQuery)
    IN /\ h.pc = "search"
       /\ \E found \in FindFilesResults(patterns[h.patternIndex], TRUE, SearchLimit) :
            LET all == FilesOf(i) \o TagHits(found, h.patternIndex) IN
            IF h.patternIndex < Len(patterns)
            THEN /\ handlers' = [handlers EXCEPT
                                    ![i] = [h EXCEPT !.files = all, !.patternIndex = @ + 1]]
                 /\ outbox' = outbox
            ELSE PostMessage(i, [h EXCEPT !.files = all, !.uniqueFiles = UniqueFiles(all),
                                          !.pc = "done"],
                             [command |-> "workspaceFiles",
                              files |-> RankedFileList(all, normalizedQuery)])
       /\ UNCHANGED <<toExtension, webview, view>>
       /\ UNCHANGED handlerVars

\* a search of invocation i throws
SearchThrowsOf(i) ==
    /\ handlers[i].pc = "search"
    /\ PostMessage(i, [handlers[i] EXCEPT !.pc = "done"],
                   [command |-> "workspaceFiles", files |-> <<>>])
    /\ UNCHANGED <<toExtension, webview, view>>
    /\ UNCHANGED handlerVars

\* _readFileContent of invocation i has ended
GetFileContentEndsOf(i) ==
    LET h == handlers[i]
        outcome == ReadFileContentChat(h.request.filePath)
    IN /\ h.pc = "getFileContent"
       /\ PostMessage(i, [h EXCEPT !.readOutcomes = <<outcome>>, !.pc = "done"],
             IF outcome.ok
             THEN [command |-> "fileContent", filePath |-> h.request.filePath,
                   content |-> outcome.val]
             ELSE ErrorMessage([kind |-> "Could not read file", path |-> h.request.filePath]))
       /\ UNCHANGED <<toExtension, webview, view>>
       /\ UNCHANGED handlerVars

\* the searches of the tokens of invocation i have ended
ResolveReferencesOf(i) ==
    LET h == handlers[i] IN
    /\ h.pc = "resolveReferences"
    /\ \E matches \in [1..Len(h.fileReferences) -> disk \cup {<<>>}] :
          /\ \A k \in 1..Len(h.fileReferences) :
                matches[k] \in FirstMatchChoices(h.fileReferences[k])
          /\ handlers' = [handlers EXCEPT ![i] =
                [h EXCEPT !.firstMatches = matches,
                          !.allFiles = CombineFiles(h.request.attachedFiles,
                                                    ResolvedFiles(matches)),
                          !.pc = "readFiles"]]
    /\ UNCHANGED <<toExtension, outbox, webview, view>>
    /\ UNCHANGED handlerVars

\* the reads of the files of invocation i have ended; the prompt is handed
\* to the endpoint in the same turn
ReadFilesOf(i) ==
    LET h == handlers[i]
        outcomes == [k \in 1..Len(h.allFiles) |-> ReadFileContentChat(h.allFiles[k])]
        fileContents == [k \in 1..Len(h.allFiles) |->
                            [path |-> AsRelativePath(h.allFiles[k]),
                             content |-> outcomes[k].val]]
        built == [text |-> h.request.text,
                  blocks |-> PromptBlocks(fileContents),
                  parts |-> PromptParts(h.request.text, fileContents)]
    IN /\ h.pc = "readFiles"
       /\ IF \A k \in 1..Len(h.allFiles) : outcomes[k].ok
          THEN \E apiKey \in BOOLEAN :
                  IF apiKey
                  THEN /\ handlers' = [handlers EXCEPT ![i] =
                             [h EXCEPT !.readOutcomes = outcomes,
                                       !.prompt = built,
                                       !.aiPrompts = Append(@, built),
                                       !.pc = "callAI"]]
                       /\ outbox' = outbox
                  ELSE PostMessage(i, [h EXCEPT !.readOutcomes = outcomes,
                                                !.prompt = built, !.pc = "done"],
                                   ErrorMessage(NoApiKey))
          ELSE \E k \in 1..Len(h.allFiles) :
                  /\ ~outcomes[k].ok
                  /\ PostMessage(i, [h EXCEPT !.readOutcomes = outcomes, !.pc = "done"],
                                 ErrorMessage(outcomes[k].val))
       /\ UNCHANGED <<toExtension, webview, view>>
       /\ UNCHANGED handlerVars

\* the reply of the endpoint to invocation i arrives
CallAIOf(i) ==
    LET h == handlers[i] IN
    /\ h.pc = "callAI"
    /\ \E outcome \in {"request failed", "completion"} :
          PostMessage(i, [h EXCEPT !.pc = "done"],
             IF outcome = "completion"
             THEN [command |-> "aiResponse", text |-> "completion",
                   referencedFiles |-> h.allFiles]
             ELSE ErrorMessage([kind |-> outcome, path |-> <<>>]))
    /\ UNCHANGED <<toExtension, webview, view>>
    /\ UNCHANGED handlerVars

(***************************************************************************)
(* Requests of the three kinds, received while earlier ones are awaiting.   *)
(***************************************************************************)
ConcurrentRequests ==
    {[NoRequest EXCEPT !.command = "getWorkspaceFiles", !.query = query] :
        query \in {<<"a">>, <<"p">>}}
    \cup {[NoRequest EXCEPT !.command = "getFileContent", !.filePath = filePath] :
            filePath \in {<<"a",".","t","s">>}}
    \cup {[NoRequest EXCEPT !.command = "sendMessage", !.text = text] :
            text \in {<<"@","a",".","t","s">>}}

\* the webview posts a message
PostRequest(message) ==
    /\ Len(toExtension) + Len(handlers) < MaxPosts
    /\ toExtension' = Append(toExtension, message)
    /\ UNCHANGED <<handlers, outbox, webview, view>>
    /\ UNCHANGED handlerVars

InitConcurrent ==
    /\ workspaceFolders \in {<<>>, <<RootU>>}
    /\ foldersDefined \in FoldersDefinedChoices
    /\ disk \in {{FileUA, FileUPng}, {FileUA, FileUDA}}
    /\ NoHandler

NextConcurrent ==
    \/ \E message \in ConcurrentRequests : PostRequest(message)
    \/ Receive
    \/ \E i \in 1..Len(handlers) : SearchReturnsOf(i)
    \/ \E i \in 1..Len(handlers) : SearchThrowsOf(i)
    \/ \E i \in 1..Len(handlers) : GetFileContentEndsOf(i)
    \/ \E i \in 1..Len(handlers) : ResolveReferencesOf(i)
    \/ \E i \in 1..Len(handlers) : ReadFilesOf(i)
    \/ \E i \in 1..Len(handlers) : CallAIOf(i)

SpecConcurrent == InitConcurrent /\ [][NextConcurrent]_vars

(***************************************************************************)
(* ChatApp, the script of the webview, and the handlers of the messages it  *)
(* posts. The text is typed at its end.                                     *)
(***************************************************************************)
\* the white space and the line terminators String.prototype.trim removes; a
\* character without an escape is written as its code point
WhiteSpace ==
    {" ", "\t", "\n", "\r", "\f", "U+000B", "U+00A0", "U+1680", "U+2000", "U+2001",
     "U+2002", "U+2003", "U+2004", "U+2005", "U+2006", "U+2007", "U+2008", "U+2009",
     "U+200A", "U+2028", "U+2029", "U+202F", "U+205F", "U+3000", "U+FEFF"}

\* s.trim(): the white space is removed from both ends
RECURSIVE Trim(_)
Trim(s) ==
    IF s # <<>> /\ s[1] \in WhiteSpace THEN Trim(Tail(s))
    ELSE IF s # <<>> /\ s[Len(s)] \in WhiteSpace THEN Trim(SubSeq(s, 1, Len(s) - 1))
    ELSE s

\* the texts the user types; the line break is typed with Shift+Enter, the
\* vertical tab is pasted
InputValues == {<<"@","a">>, <<"@","p">>, <<"h","i">>, <<"\n">>, <<"U+000B">>}

\* vscode.postMessage(message): not beyond the number of posts explored
CanPost == Len(toExtension) + Len(handlers) < MaxPosts

\* the textarea is rendered with disabled: isLoading
InputEnabled == ~webview.isLoading

\* the Send button is enabled
SendEnabled ==
    ~(webview.isLoading \/ (Trim(webview.input) = <<>> /\ webview.attachedFiles = <<>>))

\* handleInputChange: the text is stored; the text between the last @ before
\* the cursor and the cursor is sent as a query, and without an @ before the
\* cursor the suggestions are hidden
HandleInputChange(value, cursorPosition) ==
    LET textBeforeCursor == SubSeq(value, 1, cursorPosition)
        lastAtIndex == LastIndexOf(textBeforeCursor, "@")
    IN
    /\ InputEnabled
    /\ IF lastAtIndex # 0
       THEN /\ CanPost
            /\ toExtension' = Append(toExtension,
                  [NoRequest EXCEPT !.command = "getWorkspaceFiles",
                                    !.query = Substring(textBeforeCursor, lastAtIndex)])
            /\ webview' = [webview EXCEPT !.input = value]
       ELSE /\ toExtension' = toExtension
            /\ webview' = [webview EXCEPT !.input = value, !.showSuggestions = FALSE]
    /\ UNCHANGED <<handlers, outbox, view>>
    /\ UNCHANGED handlerVars

\* handleSuggestionClick(file), the cursor of the textarea being at
\* cursorPosition: the path and a space replace the text between the last @
\* before the cursor and the cursor, and the path is attached
HandleSuggestionClick(file, cursorPosition) ==
    LET textBeforeCursor == SubSeq(webview.input, 1, cursorPosition)
        textAfterCursor == Substring(webview.input, cursorPosition)
        lastAtIndex == LastIndexOf(textBeforeCursor, "@")
        newText == SubSeq(textBeforeCursor, 1, lastAtIndex) \o file.path \o <<" ">>
                   \o textAfterCursor
    IN /\ webview.showSuggestions
       /\ \E k \in 1..Len(webview.suggestions) : webview.suggestions[k] = file
       /\ webview' = [webview EXCEPT
             !.input = newText,
             !.showSuggestions = FALSE,
             !.attachedFiles = SetAdd(@, file.path)]
       /\ UNCHANGED <<toExtension, handlers, outbox, view>>
       /\ UNCHANGED handlerVars

\* removeAttachedFile(filePath)
RemoveAttachedFile(filePath) ==
    /\ \E k \in 1..Len(webview.attachedFiles) : webview.attachedFiles[k] = filePath
    /\ webview' = [webview EXCEPT
          !.attachedFiles = SelectSeq(@, LAMBDA f : f # filePath)]
    /\ UNCHANGED <<toExtension, handlers, outbox, view>>
    /\ UNCHANGED handlerVars

\* sendMessage, from the Send button or from Enter in the textarea
SendMessage ==
    /\ SendEnabled \/ InputEnabled
    /\ ~(Trim(webview.input) = <<>> /\ webview.attachedFiles = <<>>)
    /\ CanPost
    /\ toExtension' = Append(toExtension,
          [NoRequest EXCEPT !.command = "sendMessage", !.text = webview.input,
                            !.attachedFiles = webview.attachedFiles])
    /\ webview' = [webview EXCEPT
          !.messages = Append(@, [type |-> "user", content |-> webview.input,
                                  attachedFiles |-> webview.attachedFiles]),
          !.isLoading = TRUE,
          !.input = <<>>,
          !.attachedFiles = <<>>,
          !.showSuggestions = FALSE]
    /\ UNCHANGED <<handlers, outbox, view>>
    /\ UNCHANGED handlerVars

\* handleMessage: the webview handles the oldest message posted to it
HandleMessage ==
    /\ outbox # <<>>
    /\ outbox' = Tail(outbox)
    /\ LET message == Head(outbox).message IN
       webview' =
          IF message.command \in {"aiResponse", "error"}
          THEN [webview EXCEPT
                  !.messages = Append(@, [type |-> "ai", content |-> message.text]),
                  !.isLoading = FALSE]
          ELSE IF message.command = "workspaceFiles"
          THEN [webview EXCEPT !.suggestions = message.files,
                               !.showSuggestions = Len(message.files) > 0]
          ELSE webview
    /\ UNCHANGED <<toExtension, handlers, view>>
    /\ UNCHANGED handlerVars

\* the views resolveWebviewView is called with in a run
MaxViews == 2

\* resolveWebviewView(webviewView), called again when the view is made anew:
\* this._view is replaced; the html is set again, so ChatApp starts from its
\* initial state; the handler is registered on the new view. The page of the
\* old view is gone with the messages in flight to and from it; the
\* invocations in progress go on and post to the new view
ResolveWebviewView ==
    /\ view < MaxViews
    /\ view' = view + 1
    /\ webview' = ChatAppInit
    /\ toExtension' = <<>>
    /\ outbox' = <<>>
    /\ UNCHANGED handlers
    /\ UNCHANGED handlerVars

InitWebview ==
    /\ workspaceFolders \in {<<>>, <<RootU>>}
    /\ foldersDefined \in FoldersDefinedChoices
    /\ disk = {FileUA, FileUPng}
    /\ NoHandler

NextWebview ==
    \/ \E value \in InputValues : \E cursorPosition \in 0..Len(value) :
          HandleInputChange(value, cursorPosition)
    \/ \E file \in {webview.suggestions[k] : k \in 1..Len(webview.suggestions)} :
          \E cursorPosition \in 0..Len(webview.input) :
             HandleSuggestionClick(file, cursorPosition)
    \/ \E filePath \in {webview.attachedFiles[k] : k \in 1..Len(webview.attachedFiles)} :
          RemoveAttachedFile(filePath)
    \/ SendMessage
    \/ HandleMessage
    \/ ResolveWebviewView
    \/ Receive
    \/ \E i \in 1..Len(handlers) : SearchReturnsOf(i)
    \/ \E i \in 1..Len(handlers) : SearchThrowsOf(i)
    \/ \E i \in 1..Len(handlers) : ResolveReferencesOf(i)
    \/ \E i \in 1..Len(handlers) : ReadFilesOf(i)
    \/ \E i \in 1..Len(handlers) : CallAIOf(i)

SpecWebview == InitWebview /\ [][NextWebview]_vars

\* an await of the _handleChatMessage invocation i ends
ChatStepOf(i) ==
    /\ i \in 1..Len(handlers)
    /\ ResolveReferencesOf(i) \/ ReadFilesOf(i) \/ CallAIOf(i)

\* the _handleChatMessage invocation i is at an await; the step that ends the
\* await is enabled in exactly these states
ChatAwaiting(i) ==
    /\ i \in 1..Len(handlers)
    /\ handlers[i].pc \in {"resolveReferences", "readFiles", "callAI"}

\* weak fairness of ChatStepOf(i), with its enabling condition written out
ChatStepFair(i) == []<>(~ChatAwaiting(i)) \/ []<><<ChatStepOf(i)>>_vars

\* every posted message is dispatched and every awaited promise of
\* _handleChatMessage settles
SpecWebviewFair ==
    /\ SpecWebview
    /\ WF_vars(Receive)
    /\ WF_vars(HandleMessage)
    /\ \A i \in 1..MaxPosts : ChatStepFair(i)

(***************************************************************************)
(* Properties.                                                              *)
(***************************************************************************)
SendMessageDone == pc = "done" /\ request.command = "sendMessage"

\* the file on disk that an entry of allFiles makes _readFileContent open
DenotedFile(filePath) == Normalize(ChatResolve(filePath))

ReadFailed == \E i \in 1..Len(readOutcomes) : ~readOutcomes[i].ok
ReadErrors == {readOutcomes[i].val : i \in {j \in 1..Len(readOutcomes) : ~readOutcomes[j].ok}}

\* C1: the files placed in the prompt of a sendMessage request hold no two
\* entries that denote the same absolute file (an attachment given relative to
\* the workspace and a mention resolved to the absolute path included).
C1_NoDuplicateFile ==
    (request.command = "sendMessage" /\ pc \in {"callAI", "done"} /\ ~NoRootOpen)
    => \A i, j \in 1..Len(allFiles) :
          i # j => DenotedFile(allFiles[i]) # DenotedFile(allFiles[j])

\* C2: with a workspace open, a failed read of one file of the union, another
\* file having been read, does not abort the request: no error response is
\* posted for the failed read.
C2_ReadFailureDoesNotAbort ==
    (request.command = "sendMessage" /\ ~NoRootOpen /\ ReadFailed
        /\ \E i \in 1..Len(readOutcomes) : readOutcomes[i].ok)
    => \A k \in 1..Len(posted) :
          ~(posted[k].command = "error" /\ posted[k].text \in ReadErrors)

\* C3: a token that resolved to nothing is dropped silently: it leaves no
\* entry in the file set, every file of the set is an attachment or a resolved
\* mention, the only errors posted come from a read or from the generation
\* call, and when every read succeeds the prompt holds the text and one block
\* per file of the set and is what the generation call is given.
C3_UnresolvedMentionDropped ==
    SendMessageDone =>
        /\ \A i \in 1..Len(allFiles) :
              /\ allFiles[i] # <<>>
              /\ \/ \E a \in 1..Len(request.attachedFiles) : request.attachedFiles[a] = allFiles[i]
                 \/ \E m \in 1..Len(firstMatches) : firstMatches[m] = allFiles[i]
        /\ \A k \in 1..Len(posted) :
              posted[k].command = "error" =>
                 \/ posted[k].text \in ReadErrors
                 \/ posted[k].text.kind \in {"no key", "request failed"}
        /\ ~ReadFailed =>
              /\ prompt.text = request.text
              /\ Len(prompt.blocks) = Len(allFiles)
              /\ \A i \in 1..Len(allFiles) : prompt.blocks[i].content = readOutcomes[i].val
              /\ Len(posted) = 1
              /\ \/ aiPrompts = <<prompt>>
                 \/ aiPrompts = <<>> /\ posted[1].text.kind = "no key"

\* C3 witness: a request with an unresolved token ended with aiResponse and a
\* block for another file
C3_Witness ==
    /\ SendMessageDone
    /\ \E i \in 1..Len(firstMatches) : firstMatches[i] = <<>>
    /\ Len(posted) = 1 /\ posted[1].command = "aiResponse"
    /\ Len(prompt.blocks) >= 1
    /\ aiPrompts = <<prompt>>

ReadFileContentDone == pc = "done" /\ request.command = "readFileContent"
GetFileContentDone == pc = "done" /\ request.command = "getFileContent"

\* index of the first open folder under which the relative token is a file
FirstFolderHolding(token) ==
    IF \E i \in 1..Len(workspaceFolders) : IsFile(PathJoin(workspaceFolders[i], token))
    THEN CHOOSE i \in 1..Len(workspaceFolders) :
            /\ IsFile(PathJoin(workspaceFolders[i], token))
            /\ \A j \in 1..(i-1) : ~IsFile(PathJoin(workspaceFolders[j], token))
    ELSE 0

\* the read of a relative text-file token by _readFileContent used the path
\* under the first folder that holds the token
ChatReadUsesFirstHolder(token, outcome) ==
    (~IsAbsolute(token) /\ ~IsImageFileChat(token) /\ FirstFolderHolding(token) > 0)
    => /\ outcome.ok
       /\ outcome.val = FileText(PathJoin(workspaceFolders[FirstFolderHolding(token)], token))

\* C4: every read of a relative token uses root_i/token for the first root i
\* in which it exists: FileManager.readFileContent, getFileContent and the
\* reads of sendMessage.
C4_FirstRootHoldingToken ==
    /\ (ReadFileContentDone /\ ~IsAbsolute(request.filePath)
            /\ FirstFolderHolding(request.filePath) > 0)
       => fullPath = PathJoin(workspaceFolders[FirstFolderHolding(request.filePath)],
                              request.filePath)
    /\ GetFileContentDone => ChatReadUsesFirstHolder(request.filePath, readOutcomes[1])
    /\ (request.command = "sendMessage" /\ pc \in {"callAI", "done"})
       => \A i \in 1..Len(readOutcomes) : ChatReadUsesFirstHolder(allFiles[i], readOutcomes[i])

\* how FileManager.readFileContent ends on an absolute path, the open folders
\* not being looked at
AbsoluteOutcome(filePath) ==
    IF IsImageFile(filePath) THEN Fulfilled(GetImageMetadata(filePath))
    ELSE IF IsFile(filePath) THEN Fulfilled(FileText(filePath))
    ELSE Rejected(CouldNotRead(filePath, [kind |-> "cannot open", path |-> filePath]))

\* how _readFileContent ends on an absolute path, the open folders not being
\* looked at
AbsoluteOutcomeChat(filePath) ==
    IF IsImageFileChat(filePath)
    THEN Fulfilled([kind |-> "Image file", path |-> Basename(filePath)])
    ELSE IF IsFile(filePath) THEN Fulfilled(FileText(filePath))
    ELSE Rejected([kind |-> "cannot open", path |-> filePath])

\* C5 as stated: an absolute path is resolved to itself and read with the same
\* outcome whatever the open folders are, none being open included.
C5_AbsoluteIgnoresRoots ==
    /\ (ReadFileContentDone /\ IsAbsolute(request.filePath))
       => result = AbsoluteOutcome(request.filePath)
    /\ (GetFileContentDone /\ IsAbsolute(request.filePath))
       => readOutcomes[1] = AbsoluteOutcomeChat(request.filePath)

\* C5 amended: when the folder list is defined, empty or not, an absolute
\* path is resolved to itself and read with an outcome that does not depend
\* on which folders are open; when it is undefined the read fails with the
\* no-workspace error.
C5_AbsoluteUnchangedWhenOpen ==
    /\ (ReadFileContentDone /\ IsAbsolute(request.filePath))
       => IF NoWorkspaceFolders
          THEN ~result.ok /\ result.val.kind = "No workspace folder open" /\ fullPath = <<>>
          ELSE fullPath = request.filePath /\ result = AbsoluteOutcome(request.filePath)
    /\ (GetFileContentDone /\ IsAbsolute(request.filePath))
       => IF NoWorkspaceFolders
          THEN ~readOutcomes[1].ok /\ readOutcomes[1].val.kind = "No workspace folder"
          ELSE readOutcomes[1] = AbsoluteOutcomeChat(request.filePath)

\* C5 witness: an absolute path outside the open folder was read by both readers
C5_Witness ==
    /\ GetFileContentDone
    /\ IsAbsolute(request.filePath)
    /\ ~NoRootOpen
    /\ FolderIndexOf(request.filePath) = 0
    /\ readOutcomes[1].ok
    /\ posted = <<[command |-> "fileContent", filePath |-> request.filePath,
                   content |-> FileText(request.filePath)]>>

\* the hits of the fallback search whose relative path is the token
FallbackExactHits(token) ==
    {f \in FindFilesMatches(FallbackPattern(token), FALSE) : AsRelativePath(f) = token}

\* C6: a relative token that exists under no open folder and has no fallback
\* hit whose relative path equals it makes FileManager.readFileContent fail,
\* with File not found naming the token when the search returned; no path is
\* returned.
C6_FileNotFoundNamesToken ==
    (ReadFileContentDone /\ ~NoRootOpen /\ ~IsAbsolute(request.filePath)
        /\ FirstFolderWith(request.filePath) = 0
        /\ FallbackExactHits(request.filePath) = {})
    => /\ ~result.ok
       /\ fullPath = <<>>
       /\ result.val.kind = "Could not read file"
       /\ result.val.path = request.filePath
       /\ \/ result.val.cause = FileNotFound(request.filePath)
          \/ result.val.cause.kind = "search failed"

\* C6 witness: the fallback search had a hit, none with the token's path, and
\* the call ended with File not found
C6_Witness ==
    /\ ReadFileContentDone
    /\ ~IsAbsolute(request.filePath)
    /\ FirstFolderWith(request.filePath) = 0
    /\ FindFilesMatches(FallbackPattern(request.filePath), FALSE) # {}
    /\ FallbackExactHits(request.filePath) = {}
    /\ result = Rejected(CouldNotRead(request.filePath, FileNotFound(request.filePath)))

\* is the path inside one of the open folders
InsideWorkspace(p) == FolderIndexOf(Normalize(p)) > 0

\* C7: every path the resolvers return lies inside an open folder.
C7_ResolvedInsideRoots ==
    /\ (request.command = "readFileContent" /\ fullPath # <<>>) => InsideWorkspace(fullPath)
    /\ (GetFileContentDone /\ ~NoRootOpen)
       => InsideWorkspace(ChatResolve(request.filePath))

\* a getWorkspaceFiles request whose five searches returned, with hits, and
\* whose list was posted
WorkspaceFilesPosted ==
    /\ pc = "done"
    /\ request.command = "getWorkspaceFiles"
    /\ uniqueFiles # <<>>
    /\ Len(posted) = 1

PostedList == posted[1].files

\* C8: the list posted for a getWorkspaceFiles query holds each absolute path
\* at most once (and, up to the response limit, every path that was hit), and
\* the Uri kept for a path is the first hit with that path in concatenation
\* order.
C8_UniqueFirstSeen ==
    /\ (request.command = "getWorkspaceFiles" /\ Len(posted) > 0)
       => /\ Len(posted) = 1
          /\ \A i, j \in 1..Len(PostedList) :
                i # j => PostedList[i].fullPath # PostedList[j].fullPath
    /\ WorkspaceFilesPosted =>
        /\ Len(uniqueFiles) <= ResponseLimit =>
              \A h \in 1..Len(files) :
                 \E i \in 1..Len(PostedList) : PostedList[i].fullPath = files[h].fsPath
        /\ \A i \in 1..Len(uniqueFiles) :
              \E h \in 1..Len(files) :
                 /\ files[h] = uniqueFiles[i]
                 /\ \A g \in 1..(h-1) : files[g].fsPath # uniqueFiles[i].fsPath
        /\ Len(PostedList) = Min(ResponseLimit, Len(uniqueFiles))

\* C8 witness: one file was hit by two different searches and the list holds
\* two files
C8_Witness ==
    /\ WorkspaceFilesPosted
    /\ \E g, h \in 1..Len(files) :
          files[g].fsPath = files[h].fsPath /\ files[g].search # files[h].search
    /\ Len(PostedList) >= 2

\* C9: of two listed candidates with the same relevance score the one with the
\* shorter path comes first, and with paths of equal length the
\* lexicographically smaller one.
C9_TieBreakLengthThenLex ==
    WorkspaceFilesPosted =>
        \A i, j \in 1..Len(PostedList) :
           (i < j /\ CalculateRelevance(PostedList[i], request.query)
                        = CalculateRelevance(PostedList[j], request.query))
           => \/ Len(PostedList[i].path) < Len(PostedList[j].path)
              \/ /\ Len(PostedList[i].path) = Len(PostedList[j].path)
                 /\ ~LexLess(PostedList[j].path, PostedList[i].path)

\* does the candidate's relative path equal the query, letter case ignored
EqualsQueryIgnoringCase(entry) == ToLowerCase(entry.path) = ToLowerCase(request.query)

\* C10: in the list posted for a getWorkspaceFiles query a candidate whose
\* relative path equals the query, letter case ignored, precedes every
\* candidate whose path does not.
C10_ExactMatchFirst ==
    WorkspaceFilesPosted =>
        \A i, j \in 1..Len(PostedList) :
           (i < j /\ EqualsQueryIgnoringCase(PostedList[j]))
           => EqualsQueryIgnoringCase(PostedList[i])

\* C10 witness: the query differs from the path in letter case, the exact
\* match is listed first and another candidate follows it
C10_Witness ==
    /\ WorkspaceFilesPosted
    /\ ToLowerCase(request.query) # request.query
    /\ Len(PostedList) >= 2
    /\ EqualsQueryIgnoringCase(PostedList[1])
    /\ ~EqualsQueryIgnoringCase(PostedList[2])

\* the concatenated hits the searches from the k-th pattern on can deliver for
\* the folders and the disk as they are, each search in any order
RECURSIVE Deliveries(_, _)
Deliveries(patterns, k) ==
    IF k > Len(patterns) THEN {<<>>}
    ELSE {TagHits(found, k) \o rest :
            found \in FindFilesResults(patterns[k], TRUE, SearchLimit),
            rest \in Deliveries(patterns, k + 1)}

\* C11: the list posted for a getWorkspaceFiles query is the same for every
\* order in which the five searches can deliver their hits: whatever delivery
\* of the same hits is ranked, the list is the one that was posted.
C11_OrderIndependentOfArrival ==
    WorkspaceFilesPosted =>
        \A other \in Deliveries(SearchPatterns(NormalizeQuery(request.query)), 1) :
           RankedFileList(other, NormalizeQuery(request.query)) = PostedList

\* the records of the deduplicated hits
UniqueEntries == {FileListEntry(uniqueFiles[i]) : i \in 1..Len(uniqueFiles)}

\* C12: the list posted for a getWorkspaceFiles query holds at most 20
\* records and is the first min(20, n) entries of the ranked list of the n
\* deduplicated hits: it is sorted by the comparator and no hit left out
\* sorts before a hit that is listed.
C12_LimitAfterRanking ==
    /\ (request.command = "getWorkspaceFiles" /\ Len(posted) > 0)
       => Len(PostedList) <= ResponseLimit
    /\ WorkspaceFilesPosted =>
          LET normalizedQuery == NormalizeQuery(request.query)
              listed == {PostedList[i] : i \in 1..Len(PostedList)}
          IN /\ Len(PostedList) = Min(ResponseLimit, Len(uniqueFiles))
             /\ listed \subseteq UniqueEntries
             /\ Cardinality(listed) = Len(PostedList)
             /\ \A i \in 1..(Len(PostedList) - 1) :
                   CompareFiles(PostedList[i], PostedList[i + 1], normalizedQuery) <= 0
             /\ \A e \in UniqueEntries \ listed : \A i \in 1..Len(PostedList) :
                   CompareFiles(e, PostedList[i], normalizedQuery) >= 0

\* C12 witness: more than 20 deduplicated hits, 20 of them listed, the exact
\* match, delivered by an early search, first
C12_Witness ==
    /\ WorkspaceFilesPosted
    /\ Len(uniqueFiles) > ResponseLimit
    /\ Len(PostedList) = ResponseLimit
    /\ PostedList[1].fullPath = FileUAOnly
    /\ PostedList[2].fullPath = FileUA
    /\ \E i \in 1..Len(uniqueFiles) : i > ResponseLimit /\ uniqueFiles[i].fsPath = FileUA

\* C13: a getWorkspaceFiles request made while no folder is open is answered
\* with one workspaceFiles message holding the empty list, and no search is
\* issued.
C13_NoWorkspaceAnsweredEmpty ==
    (pc = "done" /\ request.command = "getWorkspaceFiles" /\ NoRootOpen)
    => /\ posted = <<[command |-> "workspaceFiles", files |-> <<>>]>>
       /\ patternIndex = 0
       /\ files = <<>>

\* the tokens of a sendMessage request have been extracted
ReferencesExtracted == request.command = "sendMessage" /\ pc = "resolveReferences"

Punctuation == {".", ",", ";", "!", "?"}

\* is token what the mention starting with the '@' at i gives: the maximal
\* run of class characters after the '@', its trailing punctuation removed
IsTokenAt(text, i, token) ==
    /\ text[i] = "@"
    /\ \E e \in (i + 1)..Len(text) :
          /\ \A j \in (i + 1)..e : RefChar(text[j])
          /\ e = Len(text) \/ ~RefChar(text[e + 1])
          /\ \E k \in i..e :
                /\ token = SubSeq(text, i + 1, k)
                /\ \A j \in (k + 1)..e : text[j] \in Punctuation
                /\ k = i \/ text[k] \notin Punctuation

\* the positions of the mentions of the text that give the token
Occurrences(text, token) == {i \in 1..Len(text) : IsTokenAt(text, i, token)}

FirstOccurrence(text, token) ==
    CHOOSE i \in Occurrences(text, token) : \A j \in Occurrences(text, token) : i <= j

\* C14: the extracted tokens hold no token twice and stand in the order of
\* the first occurrence of each in the text; every mention that gives a
\* non-empty token is represented, mentions that differ in trailing
\* punctuation only by the one token.
C14_UniqueInFirstOccurrenceOrder ==
    ReferencesExtracted =>
        /\ \A j, k \in 1..Len(fileReferences) :
              j # k => fileReferences[j] # fileReferences[k]
        /\ \A j \in 1..Len(fileReferences) :
              Occurrences(request.text, fileReferences[j]) # {}
        /\ \A j, k \in 1..Len(fileReferences) :
              j < k => FirstOccurrence(request.text, fileReferences[j])
                          < FirstOccurrence(request.text, fileReferences[k])
        /\ \A i \in 1..Len(request.text), e \in 1..Len(request.text) :
              (i < e /\ IsTokenAt(request.text, i, SubSeq(request.text, i + 1, e)))
              => \E j \in 1..Len(fileReferences) :
                    fileReferences[j] = SubSeq(request.text, i + 1, e)

\* C14 witness: two mentions that differ in a trailing dot only gave one
\* token
C14_Witness ==
    /\ ReferencesExtracted
    /\ Len(fileReferences) = 1
    /\ Cardinality(Occurrences(request.text, fileReferences[1])) = 2
    /\ \E i \in 1..Len(request.text) :
          /\ IsTokenAt(request.text, i, fileReferences[1])
          /\ i + Len(fileReferences[1]) + 1 <= Len(request.text)
          /\ request.text[i + Len(fileReferences[1]) + 1] = "."

\* C15: every token the handler extracts is non-empty, mentions made of
\* punctuation only included.
C15_TokensNonEmpty ==
    ReferencesExtracted =>
        \A j \in 1..Len(fileReferences) : Len(fileReferences[j]) > 0

\* C15 witness: the text holds a mention made of dots only, and another one
C15_Witness ==
    /\ ReferencesExtracted
    /\ Occurrences(request.text, <<>>) # {}
    /\ Len(fileReferences) = 1

\* C16: every extracted token is made of characters of the class
\* [A-Za-z0-9./_-], is the maximal run of such characters after an '@' with
\* its trailing punctuation removed, and does not end with . , ; ! or ?.
C16_TokenIsStrippedMaximalRun ==
    ReferencesExtracted =>
        \A j \in 1..Len(fileReferences) :
           LET token == fileReferences[j] IN
           /\ \A c \in 1..Len(token) : RefChar(token[c])
           /\ \E i \in 1..Len(request.text) : IsTokenAt(request.text, i, token)
           /\ token # <<>> => token[Len(token)] \notin Punctuation

\* C16 witness: a mention whose run ends with two dots before a '!' gave
\* the run without the dots
C16_Witness ==
    /\ ReferencesExtracted
    /\ Len(fileReferences) = 1
    /\ \E i \in 1..Len(request.text) :
          LET e == i + Len(fileReferences[1]) IN
          /\ IsTokenAt(request.text, i, fileReferences[1])
          /\ e + 3 <= Len(request.text)
          /\ request.text[e + 1] = "." /\ request.text[e + 2] = "."
          /\ request.text[e + 3] = "!"

\* the upper-case extension of a path, without the dot
UpperExtension(filePath) == ToUpperCase(Substring(Extname(filePath), 1))

\* a fulfilled read of an image path holds a summary, not the file's text,
\* with "Image:" and the upper-case extension in it
IsImageSummaryOf(filePath, outcome) ==
    outcome.ok =>
       /\ outcome.val.kind # "text"
       /\ Includes(SummaryText(outcome.val), <<"I","m","a","g","e",":">>)
       /\ Includes(SummaryText(outcome.val), UpperExtension(filePath))

\* C17: on every read path a read of a path with an image extension gives a
\* summary that holds "Image:" and the extension in upper case, never the
\* file's content.
C17_ImageReadGivesSummary ==
    /\ (ReadFileContentDone /\ IsImageFile(request.filePath))
       => IsImageSummaryOf(request.filePath, result)
    /\ (GetFileContentDone /\ IsImageFile(request.filePath))
       => IsImageSummaryOf(request.filePath, readOutcomes[1])
    /\ (request.command = "sendMessage" /\ pc \in {"callAI", "done"})
       => \A i \in 1..Len(readOutcomes) :
             IsImageFile(allFiles[i]) => IsImageSummaryOf(allFiles[i], readOutcomes[i])

\* C18: a read of a path that is not a file on disk fails, for images too: a
\* fulfilled read is the read of an existing file, and a failed
\* FileManager.readFileContent, a folder being open, carries the wrapped
\* cause.
C18_MissingFileFails ==
    /\ (ReadFileContentDone /\ result.ok) => IsFile(fullPath)
    /\ (ReadFileContentDone /\ ~result.ok /\ ~NoRootOpen)
       => /\ result.val.kind = "Could not read file"
          /\ result.val.path = request.filePath
          /\ result.val.cause.kind \in {"File not found", "search failed", "cannot open"}
    /\ (GetFileContentDone /\ readOutcomes[1].ok) => IsFile(ChatResolve(request.filePath))
    /\ (request.command = "sendMessage" /\ pc \in {"callAI", "done"})
       => \A i \in 1..Len(readOutcomes) :
             readOutcomes[i].ok => IsFile(ChatResolve(allFiles[i]))

\* a getFileContent request is answered by exactly one message, posted when
\* the read has ended: fileContent with the requested path and the content
\* read, or error
AnsweredOnce ==
    /\ (request.command = "getFileContent" /\ pc = "getFileContent") => posted = <<>>
    /\ GetFileContentDone =>
          /\ Len(posted) = 1
          /\ IF readOutcomes[1].ok
             THEN posted[1] = [command |-> "fileContent", filePath |-> request.filePath,
                               content |-> readOutcomes[1].val]
             ELSE /\ posted[1].command = "error"
                  /\ posted[1].text.path = request.filePath

\* C19 as stated: a getFileContent request is answered by exactly one
\* message, fileContent or error, and with no root open, the folder list
\* undefined or empty, it is error.
C19_GetFileContentAnsweredOnce ==
    /\ AnsweredOnce
    /\ (GetFileContentDone /\ NoRootOpen) => posted[1].command = "error"

\* C19 amended: a getFileContent request is answered by exactly one message,
\* fileContent or error; when the folder list is undefined it is error, and
\* when it is empty a relative path is answered with error.
C19_ErrorWhenFoldersUndefined ==
    /\ AnsweredOnce
    /\ (GetFileContentDone /\ NoWorkspaceFolders) => posted[1].command = "error"
    /\ (GetFileContentDone /\ NoRootOpen /\ ~IsAbsolute(request.filePath))
       => posted[1].command = "error"

\* C19 witness: the folder list undefined, an image path asked for, error posted
C19_Witness ==
    /\ GetFileContentDone
    /\ NoWorkspaceFolders
    /\ IsImageFileChat(request.filePath)
    /\ Len(posted) = 1
    /\ posted[1].command = "error"

\* a sendMessage request is being handled
SendMessageInProgress ==
    request.command = "sendMessage" /\ pc \in {"resolveReferences", "readFiles", "callAI"}

\* the search for the i-th token threw: files match it, yet it has no first match
SearchFailed(i) ==
    /\ firstMatches[i] = <<>>
    /\ FindFilesMatches(FindFilesInWorkspacePattern(fileReferences[i]), TRUE) # {}

\* C20 as stated: a finished sendMessage request has one response, and a
\* failure in any step, the search for a token included, made it an error
\* response.
C20_EveryFailureIsError ==
    SendMessageDone =>
        /\ Len(posted) = 1
        /\ posted[1].command \in {"aiResponse", "error"}
        /\ (\E i \in 1..Len(firstMatches) : SearchFailed(i)) => posted[1].command = "error"

\* C20 amended: every sendMessage request is eventually answered, by exactly
\* one message, aiResponse or error, posted as the handler ends; aiResponse
\* only after the generation call was made with the prompt, all reads having
\* succeeded; a failed generation call gives error; a failed search for a
\* token gives no error by itself.
C20_SendMessageAnsweredOnce ==
    /\ [](SendMessageInProgress => posted = <<>>)
    /\ [](SendMessageDone =>
            /\ Len(posted) = 1
            /\ posted[1].command \in {"aiResponse", "error"}
            /\ posted[1].command = "aiResponse"
               => (~ReadFailed /\ aiPrompts = <<prompt>>
                   /\ posted[1].referencedFiles = allFiles)
            /\ posted[1].command = "error"
               => \/ posted[1].text \in ReadErrors
                  \/ (~ReadFailed /\ posted[1].text.kind \in {"no key", "request failed"}))
    /\ SendMessageInProgress ~> SendMessageDone

\* C20 witness: the search for a token threw and the request ended with
\* aiResponse
C20_Witness ==
    /\ SendMessageDone
    /\ \E i \in 1..Len(firstMatches) : SearchFailed(i)
    /\ Len(posted) = 1
    /\ posted[1].command = "aiResponse"

\* the language tags the README's block may carry
TextOrMarkdown == {<<"t","e","x","t">>, <<"m","a","r","k","d","o","w","n">>}

\* the scenario: /ws holds README.md alone, the prompt mentions @readme, no
\* file is attached, and the prompt has been built
ReadmeScenario ==
    /\ request.command = "sendMessage"
    /\ request.text = ReadmePrompt
    /\ request.attachedFiles = <<>>
    /\ workspaceFolders = <<RootWs>>
    /\ disk = {FileWsReadmeMd}
    /\ pc = "callAI"

\* C21: for the prompt "@readme summarize this" in the workspace /ws holding
\* /ws/README.md, the mention resolves to /ws/README.md and the payload built
\* for the generation call holds the prompt text and a block whose header names
\* README.md, whose language tag is text or markdown and whose content is the
\* file's text.
C21_ReadmeEndToEnd ==
    ReadmeScenario
    => /\ firstMatches = <<FileWsReadmeMd>>
       /\ allFiles = <<FileWsReadmeMd>>
       /\ prompt.text = ReadmePrompt
       /\ \E i \in 1..Len(prompt.blocks) :
             /\ Basename(prompt.blocks[i].path) = Basename(FileWsReadmeMd)
             /\ prompt.blocks[i].language \in TextOrMarkdown
             /\ prompt.blocks[i].content = FileText(FileWsReadmeMd)

\* the hits of the fallback search whose relative path is the token when the
\* letter case is ignored
FallbackCaseHits(token) ==
    {f \in FindFilesMatches(FallbackPattern(token), FALSE) :
        ToLowerCase(AsRelativePath(f)) = ToLowerCase(token)}

FallbackSearchFailed ==
    ~result.ok /\ result.val.kind = "Could not read file"
               /\ result.val.cause.kind = "search failed"

\* C22: a relative token that exists under no open folder is searched by its
\* basename, and a hit whose relative path equals the token when the letter
\* case is ignored is the path FileManager.readFileContent resolves to, also
\* when hit and token differ in case.
C22_FallbackIgnoresCase ==
    (ReadFileContentDone /\ ~NoRootOpen /\ ~IsAbsolute(request.filePath)
        /\ FirstFolderWith(request.filePath) = 0
        /\ FallbackCaseHits(request.filePath) # {}
        /\ ~FallbackSearchFailed)
    => fullPath \in FallbackCaseHits(request.filePath)

\* the relevance score of an entry of the posted list for the request's query
Score(entry) == CalculateRelevance(entry, request.query)

\* C23: the list posted for a getWorkspaceFiles query is ordered by
\* non-increasing additive relevance score: no candidate precedes one with a
\* strictly higher score.
C23_OrderedByScore ==
    WorkspaceFilesPosted =>
        \A i, j \in 1..Len(PostedList) :
           i < j => Score(PostedList[i]) >= Score(PostedList[j])

\* the entries of the posted list whose relative path is the query
ExactEntries == {i \in 1..Len(PostedList) : PostedList[i].path = request.query}

\* C24 as stated: a candidate whose relative path equals the query exactly
\* scores at least 1000 more than every other candidate of the result set.
C24_ExactLeadsBy1000 ==
    WorkspaceFilesPosted =>
        \A i \in ExactEntries : \A j \in 1..Len(PostedList) :
           j # i => Score(PostedList[i]) >= Score(PostedList[j]) + 1000

\* C24: a candidate whose relative path equals the query, letter case ignored,
\* scores at least 700 more than every candidate of the result set whose
\* relative path does not.
C24_ExactLeadsBy700 ==
    WorkspaceFilesPosted =>
        \A i, j \in 1..Len(PostedList) :
           (EqualsQueryIgnoringCase(PostedList[i]) /\ ~EqualsQueryIgnoringCase(PostedList[j]))
           => Score(PostedList[i]) >= Score(PostedList[j]) + 700

\* C24 witness: a result set in which the candidate equal to the query leads
\* another one by 700 exactly
C24_Witness ==
    /\ WorkspaceFilesPosted
    /\ \E i, j \in 1..Len(PostedList) :
          /\ EqualsQueryIgnoringCase(PostedList[i])
          /\ ~EqualsQueryIgnoringCase(PostedList[j])
          /\ Score(PostedList[i]) = Score(PostedList[j]) + 700

\* a getWorkspaceFiles request with a folder open
SearchingWorkspace == request.command = "getWorkspaceFiles" /\ ~NoRootOpen

\* the glob of the k-th search of the family for the normalized query q: exact
\* relative path, bare filename, filename substring, filename with any
\* extension, filename substring with any extension
FamilyGlob(k, q) ==
    LET name == Substring(q, LastIndexOf(q, "/")) IN
    IF k = 1 THEN <<"*", "*", "/">> \o q
    ELSE IF k = 2 THEN <<"*", "*", "/">> \o name
    ELSE IF k = 3 THEN <<"*", "*", "/", "*">> \o name \o <<"*">>
    ELSE IF k = 4 THEN <<"*", "*", "/">> \o name \o <<".", "*">>
    ELSE <<"*", "*", "/", "*">> \o name \o <<".", "*">>

\* the positions of files that hold the hits of the k-th search
SegmentOf(k) == {i \in 1..Len(files) : files[i].search = k}

\* the files of d the k-th search of the request can hit
FamilyMatchesOn(k, d) ==
    {f \in d : FileMatches(f, FamilyGlob(k, NormalizeQuery(request.query)), TRUE)}

\* the files on disk the k-th search of the request can hit
FamilyMatches(k) == FamilyMatchesOn(k, disk)

\* what the disk can have held when a search of the request ran: the files
\* on disk now, with or without the ones createFile can have added since
DisksSearched ==
    LET created == {Normalize(CreateResolve(filePath)) : filePath \in CreatePaths}
    IN {(disk \ created) \cup added : added \in SUBSET (disk \cap created)}

\* the hits of the k-th search are all files its glob matched outside
\* node_modules when it ran, each once, up to the limit of one search
SegmentComplete(k) ==
    /\ \E d \in DisksSearched :
          /\ Cardinality(SegmentOf(k)) = Min(SearchLimit, Cardinality(FamilyMatchesOn(k, d)))
          /\ \A i \in SegmentOf(k) : files[i].fsPath \in FamilyMatchesOn(k, d)
    /\ \A i, j \in SegmentOf(k) : files[i].fsPath = files[j].fsPath => i = j

\* C25: for one getWorkspaceFiles query with a folder open the searches are
\* issued in the order exact relative path, bare filename, filename substring,
\* filename with any extension, filename substring with any extension, five in
\* all; each returns at most 20 hits and none under node_modules; the hits are
\* concatenated in that order, a file hit by several searches being kept once
\* per search until the dedup step.
C25_FiveSearchesConcatenated ==
    SearchingWorkspace =>
       /\ patternIndex \in 1..5
       /\ \A i \in 1..Len(files) : files[i].search \in 1..patternIndex
       /\ \A i, j \in 1..Len(files) : i < j => files[i].search <= files[j].search
       /\ \A k \in 1..(patternIndex - 1) : SegmentComplete(k)
       /\ pc = "search" => SegmentOf(patternIndex) = {}
       /\ pc = "done" => (SegmentOf(patternIndex) = {} \/ SegmentComplete(patternIndex))
       /\ WorkspaceFilesPosted => \A k \in 1..5 : SegmentComplete(k)

\* C25 witness: the five searches returned; two of them hit different sets of
\* files, one file was hit by two searches and is held twice, and a file under
\* node_modules that the bare filename matches was left out
C25_Witness ==
    /\ WorkspaceFilesPosted
    /\ patternIndex = 5
    /\ \E g, h \in 1..Len(files) :
          g < h /\ files[g].fsPath = files[h].fsPath /\ files[g].search < files[h].search
    /\ FamilyMatches(1) # {} /\ FamilyMatches(2) # FamilyMatches(1)
    /\ \E f \in disk :
          /\ FileMatches(f, FamilyGlob(2, NormalizeQuery(request.query)), FALSE)
          /\ f \notin FamilyMatches(2)

\* the language tag of the lookup table, "text" for an extension not in it
TableLanguage(filePath) ==
    LET k == IndexIn(ToLowerCase(Extname(filePath)), LangExts)
    IN IF k > 0 THEN LangNames[k] ELSE <<"t","e","x","t">>

\* the file blocks of the prompt, in the order they are written
FileParts == SelectSeq(prompt.parts, LAMBDA p : p.part = "File")

\* C26: in the payload built by sendMessage the prompt text comes first,
\* followed by one block per file in union order (attachments first, then the
\* resolved mentions), and the language tag of each block is the one of the
\* lookup table, "text" for every extension the table does not hold.
C26_PayloadOrderAndLanguage ==
    (request.command = "sendMessage" /\ pc = "callAI")
    => /\ allFiles = CombineFiles(request.attachedFiles, ResolvedFiles(firstMatches))
       /\ prompt.parts[1] = [part |-> "text", text |-> request.text]
       /\ \A i \in 2..Len(prompt.parts) : prompt.parts[i].part # "text"
       /\ Len(FileParts) = Len(allFiles)
       /\ \A i \in 1..Len(FileParts) :
             /\ FileParts[i].path = AsRelativePath(allFiles[i])
             /\ FileParts[i].language = TableLanguage(FileParts[i].path)

\* the files the search of a mention token matches
MentionMatches(ref) == FindFilesMatches(FindFilesInWorkspacePattern(ref), TRUE)

\* C27: the file a mention token resolves to during sendMessage does not depend
\* on the order in which the search returns its hits, and a token matched by
\* several files is not resolved to one of them: a token that resolves has
\* exactly one match, and resolves to it.
C27_ResolutionNeverPicks ==
    (request.command = "sendMessage" /\ pc = "readFiles")
    => \A i \in 1..Len(fileReferences) :
          firstMatches[i] # <<>> => MentionMatches(fileReferences[i]) = {firstMatches[i]}

\* is posted what _getWorkspaceFiles posts when it runs alone and its
\* searches deliver the hits of h
AloneWorkspaceFiles(h) ==
    LET normalizedQuery == NormalizeQuery(h.request.query) IN
    IF NoWorkspaceFolders THEN h.posted = <<>>
    ELSE \/ h.posted = <<[command |-> "workspaceFiles", files |-> <<>>]>>
         \/ /\ h.files \in Deliveries(SearchPatterns(normalizedQuery), 1)
            /\ h.posted = <<[command |-> "workspaceFiles",
                             files |-> RankedFileList(h.files, normalizedQuery)]>>

\* is posted what _getFileContent posts when it runs alone
AloneFileContent(h) ==
    LET filePath == h.request.filePath
        outcome == ReadFileContentChat(filePath)
    IN h.posted =
         <<IF outcome.ok
           THEN [command |-> "fileContent", filePath |-> filePath, content |-> outcome.val]
           ELSE ErrorMessage([kind |-> "Could not read file", path |-> filePath])>>

\* what _handleChatMessage posts once its file set is formed
AloneChatOn(fileSet) ==
    LET outcomes == [k \in 1..Len(fileSet) |-> ReadFileContentChat(fileSet[k])] IN
    IF \A k \in 1..Len(fileSet) : outcomes[k].ok
    THEN {<<[command |-> "aiResponse", text |-> "completion", referencedFiles |-> fileSet]>>,
          <<ErrorMessage([kind |-> "no key", path |-> <<>>])>>,
          <<ErrorMessage([kind |-> "request failed", path |-> <<>>])>>}
    ELSE {<<ErrorMessage(outcomes[k].val)>> : k \in {n \in 1..Len(fileSet) : ~outcomes[n].ok}}

\* is posted what _handleChatMessage posts when it runs alone and the
\* searches of its tokens return the first matches of h
AloneChat(h) ==
    LET refs == FilterNonEmpty(ExtractFileReferences(h.request.text)) IN
    /\ Len(h.firstMatches) = Len(refs)
    /\ \A k \in 1..Len(refs) : h.firstMatches[k] \in FirstMatchChoices(refs[k])
    /\ h.posted \in AloneChatOn(CombineFiles(h.request.attachedFiles,
                                             ResolvedFiles(h.firstMatches)))

\* has the finished handler h posted what it can post when it runs alone in
\* the workspace as it is
AloneAnswer(h) ==
    IF h.request.command = "getWorkspaceFiles" THEN AloneWorkspaceFiles(h)
    ELSE IF h.request.command = "getFileContent" THEN AloneFileContent(h)
    ELSE IF h.request.command = "sendMessage" THEN AloneChat(h)
    ELSE h.posted = <<>>

\* C28: handlers that interleave at their awaits do not interfere: whatever
\* other requests are in progress, the messages a finished handler posted are
\* messages it can post when it runs alone in the same workspace, and a
\* handler still awaiting has posted nothing.
C28_HandlersDoNotInterfere ==
    \A i \in 1..Len(handlers) :
       IF handlers[i].pc = "done"
       THEN AloneAnswer(handlers[i])
       ELSE handlers[i].posted = <<>>

\* C28 witness: two getWorkspaceFiles requests with different queries were in
\* progress together; the later one was answered first, and both lists hold
\* files
C28_Witness ==
    /\ Len(handlers) >= 2
    /\ handlers[1].request.command = "getWorkspaceFiles"
    /\ handlers[2].request.command = "getWorkspaceFiles"
    /\ handlers[1].request.query # handlers[2].request.query
    /\ handlers[1].pc = "done" /\ handlers[2].pc = "done"
    /\ Len(outbox) >= 2
    /\ outbox[1].handler = 2 /\ outbox[2].handler = 1
    /\ outbox[1].message.files # <<>> /\ outbox[2].message.files # <<>>
    /\ outbox[1].message.files # outbox[2].message.files

\* the invocations of _getWorkspaceFiles, oldest first
QueryHandlers ==
    {i \in 1..Len(handlers) :
        /\ handlers[i].request.command = "getWorkspaceFiles"
        /\ handlers[i].view = view}

\* every getWorkspaceFiles request has been received, has ended, and its
\* answer has been handled by the webview
QueriesAnswered ==
    /\ \A k \in 1..Len(toExtension) : toExtension[k].command # "getWorkspaceFiles"
    /\ \A i \in QueryHandlers : handlers[i].pc = "done"
    /\ \A k \in 1..Len(outbox) : outbox[k].message.command # "workspaceFiles"

\* the invocation for the most recently typed query
LatestQuery == CHOOSE i \in QueryHandlers : \A j \in QueryHandlers : j <= i

\* C29: once every suggestion query typed by the user has been answered, the
\* suggestion list of the webview is the list posted for the most recently
\* typed query, whatever order the overlapping requests completed in.
C29_SuggestionsOfLatestQuery ==
    (/\ QueryHandlers # {}
     /\ QueriesAnswered
     /\ handlers[LatestQuery].posted # <<>>)
    => webview.suggestions = handlers[LatestQuery].posted[1].files

\* the sendMessage requests of the page in use whose aiResponse or error has
\* not arrived: posted and not received, being handled, or answered and not
\* yet handled
SendsOutstanding ==
    Cardinality({k \in 1..Len(toExtension) : toExtension[k].command = "sendMessage"})
    + Cardinality({i \in 1..Len(handlers) :
                     /\ handlers[i].request.command = "sendMessage"
                     /\ handlers[i].view = view
                     /\ handlers[i].pc # "done"})
    + Cardinality({k \in 1..Len(outbox) :
                     /\ outbox[k].message.command \in {"aiResponse", "error"}
                     /\ handlers[outbox[k].handler].view = view})

OneSendOutstanding ==
    /\ SendsOutstanding <= 1
    /\ webview.isLoading <=> SendsOutstanding = 1
    /\ webview.isLoading => ~InputEnabled /\ ~SendEnabled

\* C30: at most one sendMessage request is outstanding; from the send until
\* its aiResponse or error arrives isLoading is true and the textarea and the
\* Send button are disabled; and every send is followed by isLoading false.
C30_OneSendOutstanding ==
    /\ []OneSendOutstanding
    /\ webview.isLoading ~> ~webview.isLoading

====
